---- MODULE Spec2Model ----
(***************************************************************************)
(* The result cache and the search driver of feinsum's autotuner:          *)
(* OpentunerTuner (src/feinsum/tuning/__init__.py) and the hand-written    *)
(* TileSizesTuner of examples/tuning/dg_grad.py; and the parameter         *)
(* declarations of the same module: IntParameter, the einsum_arg and       *)
(* transform_param decorators, ParametrizedTransform (bind_args and the    *)
(* memoized call), get_transform_func_from_module_path and manipulator.    *)
(*                                                                         *)
(* Python values are tagged pairs <<"int", n>> / <<"bool", 0 or 1>>, a     *)
(* dict is the sequence of its (key, value) items in insertion order, and  *)
(* a text produced by json.dumps is the sequence of its (key, value-text)  *)
(* tokens.  Runtimes are integers (a unit of time), np.inf is the result   *)
(* kind "inf".                                                             *)
(***************************************************************************)
EXTENDS Integers, Sequences, FiniteSets, TLC

\* ------------------------------------------------------------------ bounds
\* Rows a device table may hold.
MaxRows == 2

\* The runtimes the timing routine may report, in units of time.
Runtimes == {1, 2}

\* ------------------------------------------------- the drivers constructed
\* Three OpentunerTuner instances on one device and one database file:
\* d1 and d2 tune the same einsum with two transform modules, d3 tunes
\* another einsum with d1's module.
Drivers == {"d1", "d2", "d3"}

\* _get_impls_path(): the directory of the transform spaces feinsum ships.
ImplsPath == "/site-packages/feinsum/tuning/impls"

\* self.module_path, as os.path.split splits it: <<dirpath, filepath>>.
ModulePath(d) ==
    IF d = "d2" THEN <<"/home/user/spaces", "matvec.py">>
                ELSE <<ImplsPath, "matvec.py">>

\* self.einsum, by the texts the dump_* functions and get_subscripts give.
Einsum(d) ==
    IF d = "d3"
    THEN [subscripts |-> "ij,j->i", index_to_length |-> "i:8,j:8",
          use_matrix |-> "[[a],[x]]", value_to_dtype |-> "a:f64,x:f64"]
    ELSE [subscripts |-> "ij,j->i", index_to_length |-> "i:4,j:4",
          use_matrix |-> "[[a],[x]]", value_to_dtype |-> "a:f64,x:f64"]

\* self.long_dim_length
LongDimLength(d) == "100000"

\* dump_op_info(self.einsum, self.long_dim_length)
OpInfo(d) == <<Einsum(d).index_to_length, LongDimLength(d)>>

\* dump_cl_version(cl_device)
CompilerVersion(d) == "OpenCL 3.0"

\* OpentunerTuner.sql_table_name: dump_tablename of the context's device.
sql_table_name(d) == "NVIDIA_TITAN_V"

TableNames == {sql_table_name(d) : d \in Drivers}

\* OpentunerTuner.transform_space_id
transform_space_id(d) ==
    LET dirpath == ModulePath(d)[1]
        filepath == ModulePath(d)[2]
    IN  IF dirpath = ImplsPath THEN <<filepath>> ELSE ModulePath(d)

\* ------------------------------------------------- parameter assignments
\* The candidates' dicts: tunable "a" (an integer) and "b" (a boolean), in
\* either insertion order.
AValues == {<<"int", 1>>, <<"int", 2>>}
BValues == {<<"bool", 1>>}

Configs ==
    UNION {{ <<<<"a", a>>, <<"b", b>>>>, <<<<"b", b>>, <<"a", a>>>> } :
           <<a, b>> \in AValues \X BValues}

\* Python's order of the key strings.
KeyRank(k) == IF k = "a" THEN 1 ELSE 2

\* The items of a dict whose keys sort before / not before key k.
ItemsBefore(items, k) == SelectSeq(items, LAMBDA it : KeyRank(it[1]) < KeyRank(k))
ItemsFrom(items, k) == SelectSeq(items, LAMBDA it : ~(KeyRank(it[1]) < KeyRank(k)))

\* sorted(dict.items()), as json.dumps(..., sort_keys=True) orders them.
RECURSIVE SortKeys(_)
SortKeys(items) ==
    IF items = <<>> THEN <<>>
    ELSE LET rest == SortKeys(Tail(items))
             it == Head(items)
         IN  ItemsBefore(rest, it[1]) \o <<it>> \o ItemsFrom(rest, it[1])

\* json's text of one value: True is "true", an int its digits.
JsonValue(v) ==
    IF v[1] = "bool" THEN (IF v[2] = 1 THEN "true" ELSE "false")
                     ELSE ToString(v[2])

JsonItems(items) == [i \in 1..Len(items) |-> <<items[i][1], JsonValue(items[i][2])>>]

\* json.dumps(parameters) without sort_keys: the items in insertion order.
JsonDumpsUnsorted(parameters) == JsonItems(parameters)

\* json.dumps(parameters, sort_keys=True)
JsonDumps(parameters) == JsonItems(SortKeys(parameters))

\* json.loads of one value text
JsonLoadsValue(text) ==
    IF text = "true" THEN <<"bool", 1>>
    ELSE IF text = "false" THEN <<"bool", 0>>
    ELSE <<"int", CHOOSE n \in {v[2] : v \in AValues} : ToString(n) = text>>

\* json.loads(text): the dict, its items in the text's order
JsonLoads(text) == [i \in 1..Len(text) |-> <<text[i][1], JsonLoadsValue(text[i][2])>>]

\* ----------------------------------------------------------------- state
VARIABLES
    tables,     \* the names in sqlite_master of the database file
    rows,       \* rows[t]: the committed rows of table t, in ID order
    conn,       \* conn[d]: the driver's cached connection exists
    opened,     \* opened[d]: the connections the driver instance has opened
    pc,         \* pc[d]: where the driver's current call stands
    call,       \* call[d]: the method called on the driver
    cfg,        \* cfg[d]: the call's parameter assignment
    runtime,    \* runtime[d]: the runtime the call holds
    result,     \* result[d]: what the call returned or raised
    trace,      \* trace[d]: the collaborators the call has invoked, in order
    seeds,      \* seeds[d]: the list seed_configurations returned
    before,     \* rows when the call in progress (or just ended) began
    txn,        \* txn[d]: the rows INSERTed on d's connection, not yet committed
    died,       \* the driver whose process was killed with its transaction open
    tileTable,  \* TileSizesTuner: DB_TABLENAME exists
    tileRows,   \* TileSizesTuner: the rows of DB_TABLENAME
    tileConn, tilePc, tileCall, tileCfg, tileRuntime, tileResult, tileTrace,
    tileBefore,
    params,     \* the IntParameter(low, high) constructions made, with outcome
    objs,       \* the ParametrizedTransform objects constructed, by identity
    made,       \* made[i]: the binding and the object objs[i] was made from
    binds,      \* the bind_args calls made, with what each returned or raised
    invoked,    \* invoked[f, e]: how often derived-argument func f ran on e
    loads,      \* the get_transform_func_from_module_path calls made, with outcome
    manips,     \* the manipulator() calls made, with what each built or raised
    memo,       \* the entries of the functools.cache wrappers: wrapper, key, value
    xcalls      \* the calls of ParametrizedTransform objects made, with results

tunerVars == <<tables, rows, conn, opened, pc, call, cfg, runtime, result, trace, seeds,
              before, txn, died>>
tileVars == <<tileTable, tileRows, tileConn, tilePc, tileCall, tileCfg,
              tileRuntime, tileResult, tileTrace, tileBefore>>
xfVars == <<params, objs, made, binds, invoked, loads, manips, memo, xcalls>>
vars == <<tunerVars, tileVars, xfVars>>

NoResult == [kind |-> "none", time |-> 0, exc |-> ""]
Returned(t) == [kind |-> "time", time |-> t, exc |-> ""]
ReturnedNone == [kind |-> "None", time |-> 0, exc |-> ""]
ReturnedList == [kind |-> "list", time |-> 0, exc |-> ""]
ReturnedConn == [kind |-> "conn", time |-> 0, exc |-> ""]
ReturnedInf == [kind |-> "inf", time |-> 0, exc |-> ""]
Raised(e) == [kind |-> "raise", time |-> 0, exc |-> e]

NoConfig == <<>>

\* No process has been killed between its INSERT and its commit since the
\* last call began.
NoDeath == [who |-> "", at |-> ""]

Event(c, out) == [call |-> c, out |-> out]

\* ------------------------------------------------------ the result cache
\* OpentunerTuner.conn on its first access: the table is looked up in
\* sqlite_master and created when absent; later accesses reuse the handle.
ConnTables(d) == IF conn[d] THEN tables ELSE tables \cup {sql_table_name(d)}

\* The WHERE clause of query_from_db.
QueryMatches(r, d, transform_params_str) ==
    /\ r.subscripts = Einsum(d).subscripts
    /\ r.index_to_length = Einsum(d).index_to_length
    /\ r.use_matrix = Einsum(d).use_matrix
    /\ r.value_to_dtype = Einsum(d).value_to_dtype
    /\ r.transform_params = transform_params_str
    /\ r.giga_op_info = OpInfo(d)

\* cursor.fetchall() of query_from_db: runtime_in_sec of the rows selected,
\* in row order.
StoredResults(rs, d, parameters) ==
    LET hits == SelectSeq(rs, LAMBDA r : QueryMatches(r, d, JsonDumps(parameters)))
    IN  [i \in 1..Len(hits) |-> hits[i].runtime_in_sec]

\* A WHERE clause of seed_configurations that compares the transform
\* identity alone.
SeedMatchesIdOnly(r, d) == r.transform_id = transform_space_id(d)

\* The WHERE clause of seed_configurations.
SeedMatches(r, d) ==
    /\ r.transform_id = transform_space_id(d)
    /\ r.subscripts = Einsum(d).subscripts
    /\ r.index_to_length = Einsum(d).index_to_length
    /\ r.use_matrix = Einsum(d).use_matrix
    /\ r.value_to_dtype = Einsum(d).value_to_dtype
    /\ r.giga_op_info = OpInfo(d)

\* OpentunerTuner.seed_configurations on the rows rs of the driver's table.
SeedConfigurations(rs, d) ==
    LET fetched == SelectSeq(rs, LAMBDA r : SeedMatches(r, d))
    IN  [i \in 1..Len(fetched) |-> JsonLoads(fetched[i].transform_params)]

\* The first fetched result, where min(...) is meant.
PyFirst(s) == s[1]

\* max(...), where min(...) is meant.
RECURSIVE PyMax(_)
PyMax(s) ==
    IF Len(s) = 1 THEN s[1]
    ELSE LET m == PyMax(Tail(s)) IN IF s[1] >= m THEN s[1] ELSE m

\* Python's min over a non-empty list.
RECURSIVE PyMin(_)
PyMin(s) ==
    IF Len(s) = 1 THEN s[1]
    ELSE LET m == PyMin(Tail(s)) IN IF s[1] <= m THEN s[1] ELSE m

\* query_from_db answering 0 for a key that has no row.
QueryFromDbZero(rs, d, parameters) ==
    LET stored_results == StoredResults(rs, d, parameters)
    IN  IF stored_results = <<>> THEN Returned(0)
        ELSE Returned(PyMin(stored_results))

\* OpentunerTuner.query_from_db on the rows rs of the driver's table.
QueryFromDb(rs, d, parameters) ==
    LET stored_results == StoredResults(rs, d, parameters)
    IN  IF stored_results = <<>> THEN Raised("ConfigurationNotInDBError")
        ELSE Returned(PyMin(stored_results))

\* The row record_into_db inserts.
NewRow(d, rt, parameters) ==
    [subscripts |-> Einsum(d).subscripts,
     index_to_length |-> Einsum(d).index_to_length,
     use_matrix |-> Einsum(d).use_matrix,
     value_to_dtype |-> Einsum(d).value_to_dtype,
     transform_id |-> transform_space_id(d),
     transform_params |-> JsonDumps(parameters),
     runtime_in_sec |-> rt,
     compiler_version |-> CompilerVersion(d),
     giga_op_info |-> OpInfo(d)]

\* An insert that replaces the rows already stored for the key.
RecordIntoDbReplace(rs, d, rt, parameters) ==
    Append(SelectSeq(rs, LAMBDA r : ~QueryMatches(r, d, JsonDumps(parameters))),
           NewRow(d, rt, parameters))

\* An insert that is never committed.
RecordIntoDbNoCommit(rs, d, rt, parameters) == rs

\* OpentunerTuner.record_into_db: INSERT INTO ... and commit.
RecordIntoDb(rs, d, rt, parameters) == Append(rs, NewRow(d, rt, parameters))

\* A hit is what keeps a run from inserting; a miss needs room for its row.
HasRoom(d, parameters) ==
    \/ Len(rows[sql_table_name(d)]) < MaxRows
    \/ QueryFromDb(rows[sql_table_name(d)], d, parameters).kind = "time"

\* ------------------------------------------------ OpentunerTuner: actions
\* conn as a plain property: every read connects and ensures the table.
ConnectAnew(d) ==
    /\ tables' = tables \cup {sql_table_name(d)}
    /\ conn' = [conn EXCEPT ![d] = TRUE]
    /\ opened' = [opened EXCEPT ![d] = @ + 1]

\* self.conn, a cached_property: the first read connects (sqlite3.connect)
\* and ensures the table, later reads give the cached handle.
Connect(d) ==
    /\ tables' = ConnTables(d)
    /\ conn' = [conn EXCEPT ![d] = TRUE]
    /\ opened' = [opened EXCEPT ![d] = IF conn[d] THEN @ ELSE @ + 1]

\* A table-ensure that drops the device table and creates it anew.
OpenConnRecreate(d) ==
    /\ pc[d] = "idle"
    /\ Connect(d)
    /\ rows' = [rows EXCEPT ![sql_table_name(d)] = <<>>]
    /\ call' = [call EXCEPT ![d] = "conn"]
    /\ result' = [result EXCEPT ![d] = ReturnedConn]
    /\ pc' = [pc EXCEPT ![d] = "done"]
    /\ before' = rows
    /\ died' = NoDeath
    /\ UNCHANGED <<cfg, runtime, trace, seeds, txn, tileVars, xfVars>>

\* The conn property read on its own: the table-ensure operation (on a
\* later read in the same process the cached handle is returned).
OpenConn(d) ==
    /\ pc[d] = "idle"
    /\ Connect(d)
    /\ call' = [call EXCEPT ![d] = "conn"]
    /\ result' = [result EXCEPT ![d] = ReturnedConn]
    /\ pc' = [pc EXCEPT ![d] = "done"]
    /\ before' = rows
    /\ died' = NoDeath
    /\ UNCHANGED <<rows, cfg, runtime, trace, seeds, txn, tileVars, xfVars>>

\* seed_configurations(), called on the driver.
Seed(d) ==
    /\ pc[d] = "idle"
    /\ Connect(d)
    /\ seeds' = [seeds EXCEPT ![d] = SeedConfigurations(rows[sql_table_name(d)], d)]
    /\ call' = [call EXCEPT ![d] = "seed_configurations"]
    /\ result' = [result EXCEPT ![d] = ReturnedList]
    /\ pc' = [pc EXCEPT ![d] = "done"]
    /\ before' = rows
    /\ died' = NoDeath
    /\ UNCHANGED <<rows, cfg, runtime, trace, txn, tileVars, xfVars>>

\* A lookup that tidies the table as it reads: of the rows it matched it
\* keeps those with the smallest runtime and deletes the others.
QueryCompacts(d, parameters) ==
    /\ pc[d] = "idle"
    /\ Connect(d)
    /\ LET rs == rows[sql_table_name(d)]
           q == QueryFromDb(rs, d, parameters)
       IN  /\ result' = [result EXCEPT ![d] = q]
           /\ pc' = [pc EXCEPT ![d] = IF q.kind = "raise" THEN "raised" ELSE "done"]
           /\ trace' = [trace EXCEPT ![d] =
                  <<Event("query_from_db", IF q.kind = "raise" THEN q.exc ELSE "ok")>>]
           /\ rows' = [rows EXCEPT ![sql_table_name(d)] =
                  SelectSeq(rs, LAMBDA r :
                      \/ ~QueryMatches(r, d, JsonDumps(parameters))
                      \/ q.kind = "time" /\ r.runtime_in_sec = q.time)]
    /\ call' = [call EXCEPT ![d] = "query_from_db"]
    /\ cfg' = [cfg EXCEPT ![d] = parameters]
    /\ before' = rows
    /\ died' = NoDeath
    /\ UNCHANGED <<runtime, seeds, txn, tileVars, xfVars>>

\* query_from_db(parameters), called on the driver.
Query(d, parameters) ==
    /\ pc[d] = "idle"
    /\ Connect(d)
    /\ LET q == QueryFromDb(rows[sql_table_name(d)], d, parameters)
       IN  /\ result' = [result EXCEPT ![d] = q]
           /\ pc' = [pc EXCEPT ![d] = IF q.kind = "raise" THEN "raised" ELSE "done"]
           /\ trace' = [trace EXCEPT ![d] =
                  <<Event("query_from_db", IF q.kind = "raise" THEN q.exc ELSE "ok")>>]
    /\ call' = [call EXCEPT ![d] = "query_from_db"]
    /\ cfg' = [cfg EXCEPT ![d] = parameters]
    /\ before' = rows
    /\ died' = NoDeath
    /\ UNCHANGED <<rows, runtime, seeds, txn, tileVars, xfVars>>

\* sqlite's write lock: one connection at a time holds an open write
\* transaction; another connection's INSERT waits for it.
WriteLockFree(d) == \A e \in Drivers \ {d} : txn[e] = <<>>

\* record_into_db(runtime, parameters), called on the driver.
Insert(d, rt, parameters) ==
    /\ pc[d] = "idle"
    /\ Len(rows[sql_table_name(d)]) < MaxRows
    /\ WriteLockFree(d)
    /\ Connect(d)
    /\ rows' = [rows EXCEPT ![sql_table_name(d)] = RecordIntoDb(@, d, rt, parameters)]
    /\ call' = [call EXCEPT ![d] = "record_into_db"]
    /\ cfg' = [cfg EXCEPT ![d] = parameters]
    /\ runtime' = [runtime EXCEPT ![d] = rt]
    /\ result' = [result EXCEPT ![d] = ReturnedNone]
    /\ trace' = [trace EXCEPT ![d] = <<Event("record_into_db", "ok")>>]
    /\ pc' = [pc EXCEPT ![d] = "done"]
    /\ before' = rows
    /\ died' = NoDeath
    /\ UNCHANGED <<seeds, txn, tileVars, xfVars>>

\* run(desired_result, ...): cfg = desired_result.configuration.data
RunStart(d, parameters) ==
    /\ pc[d] = "idle"
    /\ HasRoom(d, parameters)
    /\ pc' = [pc EXCEPT ![d] = "query"]
    /\ call' = [call EXCEPT ![d] = "run"]
    /\ cfg' = [cfg EXCEPT ![d] = parameters]
    /\ before' = rows
    /\ died' = NoDeath
    /\ UNCHANGED <<tables, rows, conn, opened, runtime, result, trace, seeds, txn, tileVars, xfVars>>

\* run whose lookup result is ignored: it measures on a hit too.
RunQueryIgnoreHit(d) ==
    /\ pc[d] = "query" /\ call[d] = "run"
    /\ Connect(d)
    /\ trace' = [trace EXCEPT ![d] = Append(@, Event("query_from_db", "ok"))]
    /\ pc' = [pc EXCEPT ![d] = "bind"]
    /\ UNCHANGED <<rows, call, cfg, runtime, result, seeds, before, txn, died, tileVars, xfVars>>

\* run: try: result = self.query_from_db(cfg) ... else: return Result(time=result)
RunQuery(d) ==
    /\ pc[d] = "query" /\ call[d] = "run"
    /\ Connect(d)
    /\ LET q == QueryFromDb(rows[sql_table_name(d)], d, cfg[d])
       IN  /\ trace' = [trace EXCEPT ![d] = Append(@,
                  Event("query_from_db", IF q.kind = "raise" THEN q.exc ELSE "ok"))]
           /\ IF q.kind = "raise"
              THEN /\ pc' = [pc EXCEPT ![d] = "bind"]
                   /\ UNCHANGED result
              ELSE /\ pc' = [pc EXCEPT ![d] = "done"]
                   /\ result' = [result EXCEPT ![d] = q]
    /\ UNCHANGED <<rows, call, cfg, runtime, seeds, before, txn, died, tileVars, xfVars>>

\* run: bound_transform = self.transform_func.bind_args(self.einsum, **cfg)
RunBind(d) ==
    /\ pc[d] = "bind"
    /\ trace' = [trace EXCEPT ![d] = Append(@, Event("bind_args", "ok"))]
    /\ pc' = [pc EXCEPT ![d] = "roofline"]
    /\ UNCHANGED <<tables, rows, conn, opened, call, cfg, runtime, result, seeds, before,
                   txn, died, tileVars, xfVars>>

\* What a measurement collaborator may do besides returning.
MeasureErrors == {"InvalidParameterError", "RuntimeError", "MemoryError"}

\* run with "except Exception" around the roofline comparison.
RunRooflineCatchAll(d) ==
    /\ pc[d] = "roofline"
    /\ \E out \in {"ok"} \cup MeasureErrors :
          /\ trace' = [trace EXCEPT ![d] =
                 Append(@, Event("stringify_comparison_vs_roofline", out))]
          /\ IF out = "ok"
             THEN /\ pc' = [pc EXCEPT ![d] = "timeit"]
                  /\ UNCHANGED result
             ELSE /\ pc' = [pc EXCEPT ![d] = "done"]
                  /\ result' = [result EXCEPT ![d] = ReturnedInf]
    /\ UNCHANGED <<tables, rows, conn, opened, call, cfg, runtime, seeds, before, txn, died, tileVars, xfVars>>

\* run that records the candidate it found infeasible before it returns
\* the infinite cost.
RunRooflineRecordsInfeasible(d) ==
    /\ pc[d] = "roofline"
    /\ \E out \in {"ok"} \cup MeasureErrors :
          /\ trace' = [trace EXCEPT ![d] =
                 Append(@, Event("stringify_comparison_vs_roofline", out))]
          /\ CASE out = "ok" ->
                    /\ pc' = [pc EXCEPT ![d] = "timeit"]
                    /\ UNCHANGED <<result, rows>>
               [] out = "InvalidParameterError" ->
                    /\ pc' = [pc EXCEPT ![d] = "done"]
                    /\ result' = [result EXCEPT ![d] = ReturnedInf]
                    /\ rows' = [rows EXCEPT ![sql_table_name(d)] =
                                   RecordIntoDb(@, d, runtime[d], cfg[d])]
               [] OTHER ->
                    /\ pc' = [pc EXCEPT ![d] = "raised"]
                    /\ result' = [result EXCEPT ![d] = Raised(out)]
                    /\ UNCHANGED rows
    /\ UNCHANGED <<tables, conn, opened, call, cfg, runtime, seeds, before, txn, died, tileVars, xfVars>>

\* run: try: stringify_comparison_vs_roofline(...)
\*      except InvalidParameterError: return Result(time=np.inf)
RunRoofline(d) ==
    /\ pc[d] = "roofline"
    /\ \E out \in {"ok"} \cup MeasureErrors :
          /\ trace' = [trace EXCEPT ![d] =
                 Append(@, Event("stringify_comparison_vs_roofline", out))]
          /\ CASE out = "ok" ->
                    /\ pc' = [pc EXCEPT ![d] = "timeit"]
                    /\ UNCHANGED result
               [] out = "InvalidParameterError" ->
                    /\ pc' = [pc EXCEPT ![d] = "done"]
                    /\ result' = [result EXCEPT ![d] = ReturnedInf]
               [] OTHER ->
                    /\ pc' = [pc EXCEPT ![d] = "raised"]
                    /\ result' = [result EXCEPT ![d] = Raised(out)]
    /\ UNCHANGED <<tables, rows, conn, opened, call, cfg, runtime, seeds, before, txn, died, tileVars, xfVars>>

\* run: runtime = timeit(...), outside any try.
RunTimeit(d) ==
    /\ pc[d] = "timeit"
    /\ \/ \E rt \in Runtimes :
             /\ trace' = [trace EXCEPT ![d] = Append(@, Event("timeit", "ok"))]
             /\ runtime' = [runtime EXCEPT ![d] = rt]
             /\ pc' = [pc EXCEPT ![d] = "record"]
             /\ UNCHANGED result
       \/ \E err \in MeasureErrors :
             /\ trace' = [trace EXCEPT ![d] = Append(@, Event("timeit", err))]
             /\ pc' = [pc EXCEPT ![d] = "raised"]
             /\ result' = [result EXCEPT ![d] = Raised(err)]
             /\ UNCHANGED runtime
    /\ UNCHANGED <<tables, rows, conn, opened, call, cfg, seeds, before, txn, died, tileVars, xfVars>>

\* run: self.record_into_db(runtime, cfg), up to and including its
\* cursor.execute("INSERT INTO ..."): the row is in the connection's open
\* transaction, which other connections do not see.
RunRecord(d) ==
    /\ pc[d] = "record"
    /\ WriteLockFree(d)
    /\ Connect(d)
    /\ txn' = [txn EXCEPT ![d] = Append(@, NewRow(d, runtime[d], cfg[d]))]
    /\ pc' = [pc EXCEPT ![d] = "commit"]
    /\ UNCHANGED <<rows, call, cfg, runtime, result, trace, seeds, before, died, tileVars, xfVars>>

\* record_into_db whose commit writes the table back as the run found it
\* when it began, with the new row added.
RunCommitStale(d) ==
    /\ pc[d] = "commit"
    /\ rows' = [rows EXCEPT ![sql_table_name(d)] =
                   RecordIntoDb(before[sql_table_name(d)], d, runtime[d], cfg[d])]
    /\ txn' = [txn EXCEPT ![d] = <<>>]
    /\ trace' = [trace EXCEPT ![d] = Append(@, Event("record_into_db", "ok"))]
    /\ result' = [result EXCEPT ![d] = Returned(runtime[d])]
    /\ pc' = [pc EXCEPT ![d] = "done"]
    /\ UNCHANGED <<tables, conn, opened, call, cfg, runtime, seeds, before, died, tileVars, xfVars>>

\* record_into_db that returns with its transaction still open.
RunCommitDeferred(d) ==
    /\ pc[d] = "commit"
    /\ trace' = [trace EXCEPT ![d] = Append(@, Event("record_into_db", "ok"))]
    /\ result' = [result EXCEPT ![d] = Returned(runtime[d])]
    /\ pc' = [pc EXCEPT ![d] = "done"]
    /\ UNCHANGED <<tables, rows, conn, opened, call, cfg, runtime, seeds, before, txn,
                   died, tileVars, xfVars>>

\* record_into_db: self.conn.commit(), and run: return Result(time=runtime).
\* The commit makes the transaction's row the table's last row.
RunCommit(d) ==
    /\ pc[d] = "commit"
    /\ rows' = [rows EXCEPT ![sql_table_name(d)] = RecordIntoDb(@, d, runtime[d], cfg[d])]
    /\ txn' = [txn EXCEPT ![d] = <<>>]
    /\ trace' = [trace EXCEPT ![d] = Append(@, Event("record_into_db", "ok"))]
    /\ result' = [result EXCEPT ![d] = Returned(runtime[d])]
    /\ pc' = [pc EXCEPT ![d] = "done"]
    /\ UNCHANGED <<tables, conn, opened, call, cfg, runtime, seeds, before, died, tileVars, xfVars>>

Reset(d) ==
    /\ pc' = [pc EXCEPT ![d] = "idle"]
    /\ call' = [call EXCEPT ![d] = "none"]
    /\ cfg' = [cfg EXCEPT ![d] = NoConfig]
    /\ runtime' = [runtime EXCEPT ![d] = 0]
    /\ result' = [result EXCEPT ![d] = NoResult]
    /\ trace' = [trace EXCEPT ![d] = <<>>]
    /\ seeds' = [seeds EXCEPT ![d] = <<>>]

\* The caller takes what the call returned (or the lookup error it raised)
\* and the driver is ready for the next call.
Return(d) ==
    /\ \/ pc[d] = "done"
       \/ pc[d] = "raised" /\ call[d] # "run"
    /\ Reset(d)
    /\ before' = rows
    /\ UNCHANGED <<tables, rows, conn, opened, txn, died, tileVars, xfVars>>

\* The driver's process is over (an error left run, or the search ended)
\* and a later process constructs the driver anew on the same database.
Restart(d) ==
    /\ \/ pc[d] = "raised" /\ call[d] = "run"
       \/ pc[d] = "idle" /\ conn[d]
    /\ Reset(d)
    /\ before' = IF pc[d] = "idle" THEN before ELSE rows
    /\ conn' = [conn EXCEPT ![d] = FALSE]
    /\ opened' = [opened EXCEPT ![d] = 0]
    /\ UNCHANGED <<tables, rows, txn, died, tileVars, xfVars>>

\* The steps of run a call may stand before.
RunSteps == {"query", "bind", "roofline", "timeit", "record", "commit"}

\* The driver's process dies inside run (killed, power lost): sqlite rolls
\* the connection's open transaction back, the committed rows stay, and a
\* later process constructs the driver anew on the same database.
Crash(d) ==
    /\ call[d] = "run"
    /\ pc[d] \in RunSteps
    /\ Reset(d)
    /\ before' = rows
    /\ conn' = [conn EXCEPT ![d] = FALSE]
    /\ opened' = [opened EXCEPT ![d] = 0]
    /\ txn' = [txn EXCEPT ![d] = <<>>]
    /\ died' = IF txn[d] # <<>> THEN [who |-> d, at |-> pc[d]] ELSE NoDeath
    /\ UNCHANGED <<tables, rows, tileVars, xfVars>>

\* One driver at a time is inside a call: the single-threaded driver loop.
Solo(d) == \A e \in Drivers \ {d} : pc[e] = "idle"

\* ------------------------------- tuning parameters, parametrized transforms
\* IntParameter(low, high) constructions, decorated objects and bind_args
\* calls a behaviour may hold.
MaxParams == 2
MaxObjs == 2
MaxBinds == 2

\* The values IntParameter may be given as a bound: ints, a float (1.5), a
\* str ("2") and None.
BoundArgs == {<<"int", 1>>, <<"int", 2>>, <<"float", 1>>, <<"str", 2>>, <<"NoneType", 0>>}

\* INT_CLASSES (feinsum.einsum): the integer classes.
INT_CLASSES == {"int"}

\* isinstance(v, classes)
IsInstance(v, classes) == v[1] \in classes

NoValue == <<"unset", 0>>

\* IntParameter.__init__ that validates high before low.
IntParameterHighFirst(low, high) ==
    IF ~IsInstance(high, INT_CLASSES)
    THEN [kind |-> "raise", exc |-> "ValueError", msg |-> "high must be an integer",
          low |-> NoValue, high |-> NoValue]
    ELSE IF ~IsInstance(low, INT_CLASSES)
    THEN [kind |-> "raise", exc |-> "ValueError", msg |-> "low must be an integer",
          low |-> NoValue, high |-> NoValue]
    ELSE [kind |-> "IntParameter", exc |-> "", msg |-> "", low |-> low, high |-> high]

\* IntParameter.__init__(self, low, high): the object, or the error raised.
IntParameter(low, high) ==
    IF ~IsInstance(low, INT_CLASSES)
    THEN [kind |-> "raise", exc |-> "ValueError", msg |-> "low must be an integer",
          low |-> NoValue, high |-> NoValue]
    ELSE IF ~IsInstance(high, INT_CLASSES)
    THEN [kind |-> "raise", exc |-> "ValueError", msg |-> "high must be an integer",
          low |-> NoValue, high |-> NoValue]
    ELSE [kind |-> "IntParameter", exc |-> "", msg |-> "", low |-> low, high |-> high]

\* A module's code constructs IntParameter(low, high).
NewIntParameter(low, high) ==
    /\ Len(params) < MaxParams
    /\ params' = Append(params, [low |-> low, high |-> high,
                                 out |-> IntParameter(low, high)])
    /\ UNCHANGED <<objs, made, binds, invoked, loads, manips, memo, xcalls, tunerVars, tileVars>>

\* The template transform function a module decorates.
RawTransform == [wrapper |-> "none", fn |-> "transform", id |-> 0]

\* The function left as it is, where cache(fn) is meant.
NoCache(fn, k) == [wrapper |-> "none", fn |-> fn.fn, id |-> k]

\* functools.cache(fn): a new memoizing wrapper around fn, the k-th made.
Cache(fn, k) == [wrapper |-> "cache", fn |-> fn.fn, id |-> k]

\* The einsum_arg and transform_param decorators a module may apply.
EinsumArgs == {[var_name |-> "n", func |-> "get_n"], [var_name |-> "m", func |-> "get_m"]}
TransformParams == {[var_name |-> "a", func |-> "range_a"]}

\* The problem instances and the tunable values bind_args may be given;
\* the last assignment names the derived argument "n".
Einsums == {"e1", "e2"}
TransformArgs == {<< <<"a", <<"int", 1>>>> >>, << <<"a", <<"int", 2>>>> >>,
                  << <<"n", <<"int", 1>>>> >>}

\* tuple + (x,)
PrependLast(x, tuple) == tuple \o <<x>>

\* (x,) + tuple
Prepend(x, tuple) == <<x>> \o tuple

\* einsum_arg.__call__(self, fn) on a ParametrizedTransform fn
EinsumArgOnTransform(self, fn) ==
    [transform |-> fn.transform,
     einsum_derivative_args |-> Prepend(self, fn.einsum_derivative_args),
     transform_params |-> fn.transform_params]

\* einsum_arg.__call__(self, fn) on a plain callable, k objects made before
EinsumArgOnCallable(self, fn, k) ==
    [transform |-> Cache(fn, k + 1),
     einsum_derivative_args |-> <<self>>,
     transform_params |-> <<>>]

\* transform_param.__call__(self, fn) on a ParametrizedTransform fn
TransformParamOnTransform(self, fn) ==
    [transform |-> fn.transform,
     einsum_derivative_args |-> fn.einsum_derivative_args,
     transform_params |-> Prepend(self, fn.transform_params)]

\* transform_param.__call__(self, fn) on a plain callable
TransformParamOnCallable(self, fn, k) ==
    [transform |-> Cache(fn, k + 1),
     einsum_derivative_args |-> <<>>,
     transform_params |-> <<self>>]

\* @einsum_arg(var_name, func) applied to the raw function (on = 0) or to
\* the object objs[on].
AttachEinsumArg(self, on) ==
    /\ Len(objs) < MaxObjs
    /\ objs' = Append(objs, IF on = 0 THEN EinsumArgOnCallable(self, RawTransform, Len(objs))
                                      ELSE EinsumArgOnTransform(self, objs[on]))
    /\ made' = Append(made, [kind |-> "einsum_arg", by |-> self, on |-> on])
    /\ UNCHANGED <<params, binds, invoked, loads, manips, memo, xcalls, tunerVars, tileVars>>

\* @transform_param(var_name, func) applied likewise.
AttachTransformParam(self, on) ==
    /\ Len(objs) < MaxObjs
    /\ objs' = Append(objs, IF on = 0 THEN TransformParamOnCallable(self, RawTransform, Len(objs))
                                      ELSE TransformParamOnTransform(self, objs[on]))
    /\ made' = Append(made, [kind |-> "transform_param", by |-> self, on |-> on])
    /\ UNCHANGED <<params, binds, invoked, loads, manips, memo, xcalls, tunerVars, tileVars>>

\* dict[k] = v: the value replaced where the key is, else the item added.
DictSet(dict, k, v) ==
    IF \E i \in 1..Len(dict) : dict[i][1] = k
    THEN [i \in 1..Len(dict) |-> IF dict[i][1] = k THEN <<k, v>> ELSE dict[i]]
    ELSE Append(dict, <<k, v>>)

\* arg.func(einsum): the value a derived-argument function gives.
Derived(func, einsum) == <<"derived", func, einsum>>

\* {arg.var_name: arg.func(einsum) for arg in self.einsum_derivative_args}
RECURSIVE DerivedKwargs(_, _)
DerivedKwargs(args, einsum) ==
    IF args = <<>> THEN <<>>
    ELSE LET arg == args[Len(args)]
         IN  DictSet(DerivedKwargs(SubSeq(args, 1, Len(args) - 1), einsum),
                     arg.var_name, Derived(arg.func, einsum))

\* The names of a dict's keys.
Keys(dict) == {dict[i][1] : i \in 1..Len(dict)}

\* partial(f, **derived, **transform_args): a name in both dicts is a
\* TypeError (multiple values for a keyword argument).
Partial(f, derived, transform_args) ==
    IF Keys(derived) \cap Keys(transform_args) # {}
    THEN [kind |-> "raise", exc |-> "TypeError", func |-> RawTransform, keywords |-> <<>>]
    ELSE [kind |-> "partial", exc |-> "", func |-> f,
          keywords |-> derived \o transform_args]

\* ParametrizedTransform.bind_args(self, einsum, **transform_args)
BindArgsOf(self, einsum, transform_args) ==
    Partial(self.transform, DerivedKwargs(self.einsum_derivative_args, einsum),
            transform_args)

\* How often bind_args on self calls func.
CallsOf(self, func) ==
    Cardinality({i \in 1..Len(self.einsum_derivative_args) :
                    self.einsum_derivative_args[i].func = func})

Funcs == {b.func : b \in EinsumArgs}

\* bind_args that keeps what it bound on the object it was called on.
BindArgsInPlace(i, einsum, transform_args) ==
    /\ Len(binds) < MaxBinds
    /\ i \in 1..Len(objs)
    /\ binds' = Append(binds, [obj |-> i, einsum |-> einsum, args |-> transform_args,
                               out |-> BindArgsOf(objs[i], einsum, transform_args)])
    /\ objs' = [objs EXCEPT ![i].transform_params = <<>>]
    /\ invoked' = [fe \in Funcs \X Einsums |->
                      IF fe[2] = einsum THEN invoked[fe] + CallsOf(objs[i], fe[1])
                                        ELSE invoked[fe]]
    /\ UNCHANGED <<params, made, loads, manips, memo, xcalls, tunerVars, tileVars>>

\* objs[i].bind_args(einsum, **transform_args), as run calls it.
BindArgs(i, einsum, transform_args) ==
    /\ Len(binds) < MaxBinds
    /\ i \in 1..Len(objs)
    /\ binds' = Append(binds, [obj |-> i, einsum |-> einsum, args |-> transform_args,
                               out |-> BindArgsOf(objs[i], einsum, transform_args)])
    /\ invoked' = [fe \in Funcs \X Einsums |->
                      IF fe[2] = einsum THEN invoked[fe] + CallsOf(objs[i], fe[1])
                                        ELSE invoked[fe]]
    /\ UNCHANGED <<params, objs, made, loads, manips, memo, xcalls, tunerVars, tileVars>>

\* ------------------------------------------------ the transform-space loader
\* get_transform_func_from_module_path calls a behaviour may hold.
MaxLoads == 2

\* What a module path may lead to: py, the file name ends with ".py"; spec,
\* spec_from_file_location gives a spec with a loader; exec, "ok" or the
\* exception exec_module raises (the file is absent, its code fails); has,
\* the module has an attribute "transform"; transform, that attribute.
Module(py, spec, exec, has, transform) ==
    [py |-> py, spec |-> spec, exec |-> exec, has |-> has, transform |-> transform]

NoAttr == <<"NoneType", 0>>

\* The modules at the paths given: broken in each way the loader can meet,
\* with a transform that is no callable, with the plain template function,
\* and with each decorated object made so far.
Modules ==
    {Module(FALSE, TRUE, "ok", TRUE, <<"function", RawTransform>>),
     Module(TRUE, FALSE, "ok", TRUE, <<"function", RawTransform>>),
     Module(TRUE, TRUE, "FileNotFoundError", FALSE, NoAttr),
     Module(TRUE, TRUE, "SyntaxError", FALSE, NoAttr),
     Module(TRUE, TRUE, "ok", FALSE, NoAttr),
     Module(TRUE, TRUE, "ok", TRUE, <<"int", 3>>),
     Module(TRUE, TRUE, "ok", TRUE, <<"function", RawTransform>>)}
    \cup {Module(TRUE, TRUE, "ok", TRUE, <<"ParametrizedTransform", objs[i]>>) :
             i \in 1..Len(objs)}

\* callable(v): functions, and ParametrizedTransform by its __call__.
Callable(v) == v[1] \in {"function", "ParametrizedTransform"}

NoTransform == [transform |-> RawTransform, einsum_derivative_args |-> <<>>,
                transform_params |-> <<>>]

LoadRaised(exc) == [kind |-> "raise", exc |-> exc, value |-> NoTransform]
LoadReturned(pt) == [kind |-> "ParametrizedTransform", exc |-> "", value |-> pt]

\* A loader that wraps whatever the module's transform is.
GetTransformFuncAlwaysWrap(m) ==
    IF ~m.py THEN LoadRaised("AssertionError")
    ELSE IF ~m.spec THEN LoadRaised("RuntimeError")
    ELSE IF m.exec # "ok" THEN LoadRaised(m.exec)
    ELSE IF ~m.has THEN LoadRaised("AttributeError")
    ELSE IF ~Callable(m.transform) THEN LoadRaised("AssertionError")
    ELSE LoadReturned([transform |-> IF m.transform[1] = "function"
                                     THEN m.transform[2]
                                     ELSE m.transform[2].transform,
                       einsum_derivative_args |-> <<>>,
                       transform_params |-> <<>>])

\* get_transform_func_from_module_path(module_path), on what the path leads
\* to: the ParametrizedTransform returned, or the error raised.
GetTransformFuncFromModulePath(m) ==
    IF ~m.py THEN LoadRaised("AssertionError")
    ELSE IF ~m.spec THEN LoadRaised("RuntimeError")
    ELSE IF m.exec # "ok" THEN LoadRaised(m.exec)
    ELSE IF ~m.has THEN LoadRaised("AttributeError")
    ELSE IF IsInstance(m.transform, {"ParametrizedTransform"})
    THEN LoadReturned(m.transform[2])
    ELSE IF ~Callable(m.transform) THEN LoadRaised("AssertionError")
    ELSE LoadReturned([transform |-> m.transform[2],
                       einsum_derivative_args |-> <<>>,
                       transform_params |-> <<>>])

\* The loader is called on a module path.
Load(m) ==
    /\ Len(loads) < MaxLoads
    /\ loads' = Append(loads, [module |-> m, out |-> GetTransformFuncFromModulePath(m)])
    /\ UNCHANGED <<params, objs, made, binds, invoked, manips, memo, xcalls, tunerVars, tileVars>>

\* ------------------------------------------------- the configuration space
\* manipulator() calls a behaviour may hold.
MaxManips == 1

\* The tunable-parameter bindings a transform-space module may declare.
TunableParams ==
    {[var_name |-> "a", func |-> "range_a"],
     [var_name |-> "b", func |-> "flag_b"],
     [var_name |-> "c", func |-> "mode_c"]}

\* BoolParameter()
BoolParameter == [kind |-> "BoolParameter", exc |-> "", msg |-> "",
                  low |-> NoValue, high |-> NoValue]

\* An instance of another subclass of TuningParameter.
OtherParameter == [kind |-> "OtherParameter", exc |-> "", msg |-> "",
                   low |-> NoValue, high |-> NoValue]

\* param.func(self.einsum): the parameter space a binding's function gives
\* for a problem instance.
TuningParamOf(func, einsum) ==
    CASE func = "range_a" ->
            IF einsum = "e1" THEN IntParameter(<<"int", 1>>, <<"int", 2>>)
                             ELSE IntParameter(<<"int", 2>>, <<"int", 2>>)
      [] func = "flag_b" -> BoolParameter
      [] OTHER -> OtherParameter

\* opentuner.IntegerParameter(name, min_value, max_value)
IntegerParameter(name, min_value, max_value) ==
    [type |-> "IntegerParameter", name |-> name,
     min_value |-> min_value, max_value |-> max_value]

\* BooleanParameter(name)
BooleanParameter(name) ==
    [type |-> "BooleanParameter", name |-> name,
     min_value |-> NoValue, max_value |-> NoValue]

\* A loop that passes over a parameter of an unsupported kind.
RECURSIVE AddParametersSkipOther(_, _, _)
AddParametersSkipOther(transform_params, einsum, added) ==
    IF transform_params = <<>>
    THEN [kind |-> "manipulator", exc |-> "", params |-> added]
    ELSE LET param == Head(transform_params)
             tuning_param == TuningParamOf(param.func, einsum)
         IN  IF tuning_param.kind = "IntParameter"
             THEN AddParametersSkipOther(Tail(transform_params), einsum,
                      Append(added, IntegerParameter(param.var_name, tuning_param.low,
                                                     tuning_param.high)))
             ELSE IF tuning_param.kind = "BoolParameter"
             THEN AddParametersSkipOther(Tail(transform_params), einsum,
                      Append(added, BooleanParameter(param.var_name)))
             ELSE AddParametersSkipOther(Tail(transform_params), einsum, added)

\* manipulator's loop over self.transform_func.transform_params, with the
\* parameters added so far: the manipulator returned, or the error raised.
RECURSIVE AddParameters(_, _, _)
AddParameters(transform_params, einsum, added) ==
    IF transform_params = <<>>
    THEN [kind |-> "manipulator", exc |-> "", params |-> added]
    ELSE LET param == Head(transform_params)
             tuning_param == TuningParamOf(param.func, einsum)
         IN  IF tuning_param.kind = "IntParameter"
             THEN AddParameters(Tail(transform_params), einsum,
                      Append(added, IntegerParameter(param.var_name, tuning_param.low,
                                                     tuning_param.high)))
             ELSE IF tuning_param.kind = "BoolParameter"
             THEN AddParameters(Tail(transform_params), einsum,
                      Append(added, BooleanParameter(param.var_name)))
             ELSE [kind |-> "raise", exc |-> "NotImplementedError", params |-> <<>>]

\* OpentunerTuner.manipulator(), of a driver whose transform_func is
\* objs[i] and whose einsum is `einsum`.
Manipulator(i, einsum) ==
    /\ Len(manips) < MaxManips
    /\ i \in 1..Len(objs)
    /\ manips' = Append(manips, [obj |-> i, einsum |-> einsum,
                                 out |-> AddParameters(objs[i].transform_params,
                                                       einsum, <<>>)])
    /\ UNCHANGED <<params, objs, made, binds, invoked, loads, memo, xcalls, tunerVars, tileVars>>

\* ------------------------------------------------ calling the transform
\* Calls of ParametrizedTransform objects a behaviour may hold.
MaxCalls == 2

\* The keyword arguments a transform may be called with (the kernel is the
\* same in all): two orders of one mapping, and another mapping.
CallKwargs ==
    {<< <<"n", <<"int", 1>>>>, <<"a", <<"int", 1>>>> >>,
     << <<"a", <<"int", 1>>>>, <<"n", <<"int", 1>>>> >>,
     << <<"n", <<"int", 1>>>>, <<"a", <<"int", 2>>>> >>}

\* functools' key of a call: the keyword items in the order they were given.
MakeKey(kwargs) == kwargs

\* What the template function returns when it is invoked for the n-th
\* time: a kernel built anew.
RawResult(kwargs, n) ==
    [kernel |-> {kwargs[i] : i \in 1..Len(kwargs)}, built |-> n]

\* How often the template function has been invoked.
RawRuns == Cardinality({k \in 1..Len(xcalls) : xcalls[k].ran})

\* ParametrizedTransform.__call__(self, *args, **kwargs) on objs[i]:
\* self.transform(*args, **kwargs), through the cache wrapper when
\* self.transform is one.
CallTransform(i, kwargs) ==
    /\ Len(xcalls) < MaxCalls
    /\ i \in 1..Len(objs)
    /\ LET w == objs[i].transform
           hits == {e \in memo : e.id = w.id /\ e.key = MakeKey(kwargs)}
       IN  IF w.wrapper = "cache" /\ hits # {}
           THEN /\ xcalls' = Append(xcalls, [obj |-> i, kwargs |-> kwargs, ran |-> FALSE,
                                             out |-> (CHOOSE e \in hits : TRUE).value])
                /\ UNCHANGED memo
           ELSE LET value == RawResult(kwargs, RawRuns + 1)
                IN  /\ xcalls' = Append(xcalls, [obj |-> i, kwargs |-> kwargs,
                                                 ran |-> TRUE, out |-> value])
                    /\ memo' = IF w.wrapper = "cache"
                               THEN memo \cup {[id |-> w.id, key |-> MakeKey(kwargs),
                                                value |-> value]}
                               ELSE memo
    /\ UNCHANGED <<params, objs, made, binds, invoked, loads, manips, tunerVars, tileVars>>

Init ==
    /\ tables = {}
    /\ rows = [t \in TableNames |-> <<>>]
    /\ conn = [d \in Drivers |-> FALSE]
    /\ opened = [d \in Drivers |-> 0]
    /\ pc = [d \in Drivers |-> "idle"]
    /\ call = [d \in Drivers |-> "none"]
    /\ cfg = [d \in Drivers |-> NoConfig]
    /\ runtime = [d \in Drivers |-> 0]
    /\ result = [d \in Drivers |-> NoResult]
    /\ trace = [d \in Drivers |-> <<>>]
    /\ seeds = [d \in Drivers |-> <<>>]
    /\ before = rows
    /\ txn = [d \in Drivers |-> <<>>]
    /\ died = NoDeath
    /\ tileTable = FALSE
    /\ tileRows = <<>>
    /\ tileConn = FALSE
    /\ tilePc = "idle"
    /\ tileCall = "none"
    /\ tileCfg = NoConfig
    /\ tileRuntime = 0
    /\ tileResult = NoResult
    /\ tileTrace = <<>>
    /\ tileBefore = <<>>
    /\ params = <<>>
    /\ objs = <<>>
    /\ made = <<>>
    /\ binds = <<>>
    /\ invoked = [fe \in Funcs \X Einsums |-> 0]
    /\ loads = <<>>
    /\ manips = <<>>
    /\ memo = {}
    /\ xcalls = <<>>

Next ==
    \E d \in Drivers :
        \/ Solo(d) /\ OpenConn(d)
        \/ Solo(d) /\ Seed(d)
        \/ Solo(d) /\ \E parameters \in Configs : Query(d, parameters)
        \/ Solo(d) /\ \E parameters \in Configs, rt \in Runtimes : Insert(d, rt, parameters)
        \/ Solo(d) /\ \E parameters \in Configs : RunStart(d, parameters)
        \/ RunQuery(d)
        \/ RunBind(d)
        \/ RunRoofline(d)
        \/ RunTimeit(d)
        \/ RunRecord(d)
        \/ RunCommit(d)
        \/ Return(d)
        \/ Restart(d)
        \/ Crash(d)

Spec == Init /\ [][Next]_vars

\* ------------------------------------------- drivers sharing one store
\* The runs under way that may still insert a row.
InFlight ==
    {e \in Drivers : pc[e] \in {"query", "bind", "roofline", "timeit", "record",
                                "commit"}}

\* Room in the table for one more row besides those the runs under way may
\* insert.
RoomBeside ==
    \A t \in TableNames : Len(rows[t]) + Cardinality(InFlight) < MaxRows

\* The driver processes that run at the same time: two tuners of one einsum
\* with different transform modules.
ConcDrivers == {"d1", "d2"}

\* Driver processes on one database file, the steps of their runs and their
\* reads (lookups, seed enumerations) interleaved in any order; table-ensure
\* and record_into_db on their own are called between runs.
NextConc ==
    \E d \in ConcDrivers :
        \/ Solo(d) /\ OpenConn(d)
        \/ Seed(d)
        \/ \E parameters \in Configs : Query(d, parameters)
        \/ Solo(d) /\ \E parameters \in Configs, rt \in Runtimes : Insert(d, rt, parameters)
        \/ RoomBeside /\ \E parameters \in Configs : RunStart(d, parameters)
        \/ RunQuery(d)
        \/ RunBind(d)
        \/ RunRoofline(d)
        \/ RunTimeit(d)
        \/ RunRecord(d)
        \/ RunCommit(d)
        \/ Return(d)
        \/ Restart(d)
        \/ Crash(d)

SpecConc == Init /\ [][NextConc]_vars

\* A transform-space module declares its parameters.
NextParam ==
    \E low \in BoundArgs, high \in BoundArgs : NewIntParameter(low, high)

SpecParam == Init /\ [][NextParam]_vars

\* A transform-space module decorates its transform, and the objects are
\* bound.
NextXf ==
    \/ \E self \in EinsumArgs, on \in 0..Len(objs) : AttachEinsumArg(self, on)
    \/ \E self \in TransformParams, on \in 0..Len(objs) : AttachTransformParam(self, on)
    \/ \E i \in 1..Len(objs), einsum \in Einsums, transform_args \in TransformArgs :
          BindArgs(i, einsum, transform_args)

SpecXf == Init /\ [][NextXf]_vars

\* Transform-space modules are written (their transforms decorated) and
\* loaded from their paths.
NextLoad ==
    \/ \E self \in EinsumArgs, on \in 0..Len(objs) : AttachEinsumArg(self, on)
    \/ \E self \in TransformParams, on \in 0..Len(objs) : AttachTransformParam(self, on)
    \/ \E m \in Modules : Load(m)

SpecLoad == Init /\ [][NextLoad]_vars

\* Transform-space modules declare their parameters, and drivers build
\* their configuration spaces from them.
NextManip ==
    \/ \E self \in EinsumArgs, on \in 0..Len(objs) : AttachEinsumArg(self, on)
    \/ \E self \in TunableParams, on \in 0..Len(objs) : AttachTransformParam(self, on)
    \/ \E i \in 1..Len(objs), einsum \in Einsums : Manipulator(i, einsum)

SpecManip == Init /\ [][NextManip]_vars

\* Transform-space modules decorate their transforms, and the objects are
\* called.
NextCall ==
    \/ \E self \in EinsumArgs, on \in 0..Len(objs) : AttachEinsumArg(self, on)
    \/ \E self \in TransformParams, on \in 0..Len(objs) : AttachTransformParam(self, on)
    \/ \E i \in 1..Len(objs), kwargs \in CallKwargs : CallTransform(i, kwargs)

SpecCall == Init /\ [][NextCall]_vars

\* ------------------------------------- TileSizesTuner (examples/tuning)
Ndim == 3
Ndof == 35

\* Candidates of the tile-size search space: the first and the last pass the
\* resource checks, the second exceeds the block dimension limit, the third
\* the shared memory limit (by its prefetch).
TileConfigs ==
    {[i_tiles |-> 1, j_tiles |-> 1, n_e_per_wg |-> 2, nwork_items_per_e |-> 1,
      prftch_u_to_local |-> <<"bool", 0>>],
     [i_tiles |-> 1, j_tiles |-> 1, n_e_per_wg |-> 32, nwork_items_per_e |-> 105,
      prftch_u_to_local |-> <<"bool", 0>>],
     [i_tiles |-> 1, j_tiles |-> 1, n_e_per_wg |-> 16, nwork_items_per_e |-> 1,
      prftch_u_to_local |-> <<"bool", 1>>],
     [i_tiles |-> 1, j_tiles |-> 1, n_e_per_wg |-> 16, nwork_items_per_e |-> 1,
      prftch_u_to_local |-> <<"bool", 0>>]}

\* int(x) of a Python bool or int
PyInt(v) == v[2]

\* math.ceil(a/b) for positive integers
Ceil(a, b) == (a + b - 1) \div b

\* cfg["n_e_per_wg"] * cfg["nwork_items_per_e"] > 600
BlockLimitExceeded(c) == c.n_e_per_wg * c.nwork_items_per_e > 600

\* (...)*8e-3 > 47, in thousandths
SharedMemoryLimitExceeded(c) ==
    (Ceil(Ndof * Ndim, c.i_tiles) * Ceil(Ndof, c.j_tiles)
     + PyInt(c.prftch_u_to_local) * Ndof * c.n_e_per_wg
     + Ndim * Ndof * c.n_e_per_wg) * 8 > 47000

\* The WHERE clause of dg_grad's query_from_db.
TileQueryMatches(r, c) ==
    /\ r.i_tiles = c.i_tiles
    /\ r.j_tiles = c.j_tiles
    /\ r.n_e_per_wg = c.n_e_per_wg
    /\ r.nwork_items_per_e = c.nwork_items_per_e
    /\ r.prftch_u_to_local = PyInt(c.prftch_u_to_local)

\* dg_grad's query_from_db(conn, **cfg)
TileQueryFromDb(rs, c) ==
    LET hits == SelectSeq(rs, LAMBDA r : TileQueryMatches(r, c))
        prev_results == [i \in 1..Len(hits) |-> hits[i].runtime_in_sec]
    IN  IF prev_results = <<>> THEN Raised("ConfigurationNotInDBError")
        ELSE Returned(PyMin(prev_results))

\* dg_grad's record_into_db(conn, ..., runtime)
TileRecordIntoDb(rs, c, rt) ==
    Append(rs, [i_tiles |-> c.i_tiles, j_tiles |-> c.j_tiles,
                n_e_per_wg |-> c.n_e_per_wg,
                nwork_items_per_e |-> c.nwork_items_per_e,
                prftch_u_to_local |-> PyInt(c.prftch_u_to_local),
                runtime_in_sec |-> rt])

\* TileSizesTuner.conn on its first access
TileConnect ==
    /\ tileTable' = TRUE
    /\ tileConn' = TRUE

\* record_into_db(self.conn, ...) called on its own, as a seeding script does
TileInsert(c, rt) ==
    /\ tilePc = "idle"
    /\ Len(tileRows) < MaxRows
    /\ TileConnect
    /\ tileRows' = TileRecordIntoDb(tileRows, c, rt)
    /\ tileCall' = "record_into_db"
    /\ tileCfg' = c
    /\ tileRuntime' = rt
    /\ tileResult' = ReturnedNone
    /\ tileTrace' = <<Event("record_into_db", "ok")>>
    /\ tilePc' = "done"
    /\ tileBefore' = tileRows
    /\ UNCHANGED <<tunerVars, xfVars>>

\* TileSizesTuner.run(desired_result, input, limit)
TileRunStart(c) ==
    /\ tilePc = "idle"
    /\ \/ Len(tileRows) < MaxRows
       \/ TileQueryFromDb(tileRows, c).kind = "time"
    /\ tilePc' = "query"
    /\ tileCall' = "run"
    /\ tileCfg' = c
    /\ tileBefore' = tileRows
    /\ UNCHANGED <<tileTable, tileRows, tileConn, tileRuntime, tileResult,
                   tileTrace, tunerVars, xfVars>>

\* run: try: result = query_from_db(self.conn, **cfg) ... else: return
TileRunQuery ==
    /\ tilePc = "query"
    /\ TileConnect
    /\ LET q == TileQueryFromDb(tileRows, tileCfg)
       IN  /\ tileTrace' = Append(tileTrace,
                  Event("query_from_db", IF q.kind = "raise" THEN q.exc ELSE "ok"))
           /\ IF q.kind = "raise"
              THEN /\ tilePc' = "filter"
                   /\ UNCHANGED tileResult
              ELSE /\ tilePc' = "done"
                   /\ tileResult' = q
    /\ UNCHANGED <<tileRows, tileCall, tileCfg, tileRuntime, tileBefore, tunerVars, xfVars>>

\* run without its two resource checks
TileRunFilterSkip ==
    /\ tilePc = "filter"
    /\ tilePc' = "roofline"
    /\ UNCHANGED <<tileTable, tileRows, tileConn, tileCall, tileCfg, tileRuntime,
                   tileResult, tileTrace, tileBefore, tunerVars, xfVars>>

\* run: the block dimension and shared memory checks, then the partial
TileRunFilter ==
    /\ tilePc = "filter"
    /\ IF BlockLimitExceeded(tileCfg) \/ SharedMemoryLimitExceeded(tileCfg)
       THEN /\ tilePc' = "done"
            /\ tileResult' = ReturnedInf
       ELSE /\ tilePc' = "roofline"
            /\ UNCHANGED tileResult
    /\ UNCHANGED <<tileTable, tileRows, tileConn, tileCall, tileCfg, tileRuntime,
                   tileTrace, tileBefore, tunerVars, xfVars>>

\* run: print(fnsm.stringify_comparison_vs_roofline(...)), in no try
TileRunRoofline ==
    /\ tilePc = "roofline"
    /\ \E out \in {"ok"} \cup MeasureErrors :
          /\ tileTrace' = Append(tileTrace,
                 Event("stringify_comparison_vs_roofline", out))
          /\ IF out = "ok"
             THEN /\ tilePc' = "timeit"
                  /\ UNCHANGED tileResult
             ELSE /\ tilePc' = "raised"
                  /\ tileResult' = Raised(out)
    /\ UNCHANGED <<tileTable, tileRows, tileConn, tileCall, tileCfg, tileRuntime,
                   tileBefore, tunerVars, xfVars>>

\* run: runtime = fnsm.timeit(...)
TileRunTimeit ==
    /\ tilePc = "timeit"
    /\ \/ \E rt \in Runtimes :
             /\ tileTrace' = Append(tileTrace, Event("timeit", "ok"))
             /\ tileRuntime' = rt
             /\ tilePc' = "record"
             /\ UNCHANGED tileResult
       \/ \E err \in MeasureErrors :
             /\ tileTrace' = Append(tileTrace, Event("timeit", err))
             /\ tilePc' = "raised"
             /\ tileResult' = Raised(err)
             /\ UNCHANGED tileRuntime
    /\ UNCHANGED <<tileTable, tileRows, tileConn, tileCall, tileCfg, tileBefore,
                   tunerVars, xfVars>>

\* run: record_into_db(self.conn, ..., runtime); return Result(time=runtime)
TileRunRecord ==
    /\ tilePc = "record"
    /\ TileConnect
    /\ tileRows' = TileRecordIntoDb(tileRows, tileCfg, tileRuntime)
    /\ tileTrace' = Append(tileTrace, Event("record_into_db", "ok"))
    /\ tileResult' = Returned(tileRuntime)
    /\ tilePc' = "done"
    /\ UNCHANGED <<tileCall, tileCfg, tileRuntime, tileBefore, tunerVars, xfVars>>

TileReset ==
    /\ tilePc' = "idle"
    /\ tileCall' = "none"
    /\ tileCfg' = NoConfig
    /\ tileRuntime' = 0
    /\ tileResult' = NoResult
    /\ tileTrace' = <<>>
    /\ tileBefore' = tileRows

\* The search backend takes the cost and proposes the next candidate.
TileReturn ==
    /\ tilePc = "done"
    /\ TileReset
    /\ UNCHANGED <<tileTable, tileRows, tileConn, tunerVars, xfVars>>

\* The script's process is over and the script is started again.
TileRestart ==
    /\ \/ tilePc = "raised"
       \/ tilePc = "idle" /\ tileConn
    /\ TileReset
    /\ tileConn' = FALSE
    /\ UNCHANGED <<tileTable, tileRows, tunerVars, xfVars>>

NextTile ==
    \/ \E c \in TileConfigs, rt \in Runtimes : TileInsert(c, rt)
    \/ \E c \in TileConfigs : TileRunStart(c)
    \/ TileRunQuery
    \/ TileRunFilter
    \/ TileRunRoofline
    \/ TileRunTimeit
    \/ TileRunRecord
    \/ TileReturn
    \/ TileRestart

SpecTile == Init /\ [][NextTile]_vars

\* The search on its own: the drivers are only run by their search backends
\* (with lookups, seed enumerations and table-ensures between the runs), no
\* script inserts records besides, so every row is the record of a run.
NextSearch ==
    \E d \in Drivers :
        \/ Solo(d) /\ OpenConn(d)
        \/ Solo(d) /\ Seed(d)
        \/ Solo(d) /\ \E parameters \in Configs : Query(d, parameters)
        \/ Solo(d) /\ \E parameters \in Configs : RunStart(d, parameters)
        \/ RunQuery(d)
        \/ RunBind(d)
        \/ RunRoofline(d)
        \/ RunTimeit(d)
        \/ RunRecord(d)
        \/ RunCommit(d)
        \/ Return(d)
        \/ Restart(d)
        \/ Crash(d)

SpecSearch == Init /\ [][NextSearch]_vars

\* The two programs, each on its own database: the autotune driver
\* (OpentunerTuner) or the dg_grad script (TileSizesTuner); a behaviour is
\* a behaviour of one of them.
TunerUnused == tables = {} /\ \A d \in Drivers : pc[d] = "idle"
TileUnused == ~tileTable /\ tilePc = "idle"

NextRuns ==
    \/ TileUnused /\ Next
    \/ TunerUnused /\ NextTile

SpecRuns == Init /\ [][NextRuns]_vars

\* ------------------------------------------------------------ properties
\* The items of a dict or of a serialized assignment, as a set: the
\* name-to-value mapping, whatever the order of its keys.
ItemsOf(seq) == {seq[i] : i \in 1..Len(seq)}

SameMapping(p, q) == ItemsOf(p) = ItemsOf(q)

\* Row r records driver d's problem and the assignment `parameters`: the
\* columns a lookup compares (the transform identity is not among them).
RowIsFor(r, d, parameters) ==
    /\ r.subscripts = Einsum(d).subscripts
    /\ r.index_to_length = Einsum(d).index_to_length
    /\ r.use_matrix = Einsum(d).use_matrix
    /\ r.value_to_dtype = Einsum(d).value_to_dtype
    /\ r.giga_op_info = OpInfo(d)
    /\ ItemsOf(r.transform_params) = ItemsOf(JsonItems(parameters))

RuntimesFor(rs, d, parameters) ==
    {rs[i].runtime_in_sec : i \in {j \in 1..Len(rs) : RowIsFor(rs[j], d, parameters)}}

IsMinimumOf(m, S) == m \in S /\ \A x \in S : m <= x

Calls(tr) == {tr[i].call : i \in 1..Len(tr)}
Outcomes(tr) == {tr[i].out : i \in 1..Len(tr)}

\* A lookup is over: query_from_db called on its own has returned or raised.
LookupOver(d) == call[d] = "query_from_db" /\ pc[d] \in {"done", "raised"}

\* C1: a lookup that returns a runtime returns the minimum runtime_in_sec of
\* the rows stored for its key (the driver's problem fingerprint and the
\* parameter assignment), wherever in the table the smallest one stands.
C1_LookupReturnsMinimum ==
    \A d \in Drivers :
        (LookupOver(d) /\ RuntimesFor(rows[sql_table_name(d)], d, cfg[d]) # {})
        => /\ result[d].kind = "time"
           /\ IsMinimumOf(result[d].time,
                          RuntimesFor(rows[sql_table_name(d)], d, cfg[d]))

\* C1 witness: two rows for the key, the larger runtime inserted first, and
\* the lookup returned the smaller.
C1_Witness ==
    \E d \in Drivers :
        LET rs == rows[sql_table_name(d)]
        IN  /\ LookupOver(d)
            /\ Len(rs) >= 2
            /\ RowIsFor(rs[1], d, cfg[d]) /\ RowIsFor(rs[2], d, cfg[d])
            /\ rs[1].runtime_in_sec > rs[2].runtime_in_sec
            /\ result[d] = Returned(rs[2].runtime_in_sec)

\* The query step of a run is behind it.
RunPastLookup(d) == call[d] = "run" /\ pc[d] \notin {"idle", "query"}

\* C2: a run for a candidate whose key had a record when the run began is
\* over right after its lookup: it returned the minimum cached runtime as
\* the cost, called neither bind_args nor the roofline comparison nor
\* timeit, and left the rows as they were.
C2_CacheHitSkipsMeasurement ==
    \A d \in Drivers :
        (RunPastLookup(d) /\ RuntimesFor(before[sql_table_name(d)], d, cfg[d]) # {})
        => /\ pc[d] = "done"
           /\ result[d].kind = "time"
           /\ IsMinimumOf(result[d].time,
                          RuntimesFor(before[sql_table_name(d)], d, cfg[d]))
           /\ trace[d] = <<Event("query_from_db", "ok")>>
           /\ rows = before

\* C2 witness: a run ended in a hit on a key with two records.
C2_Witness ==
    \E d \in Drivers :
        /\ call[d] = "run" /\ pc[d] = "done"
        /\ trace[d] = <<Event("query_from_db", "ok")>>
        /\ Cardinality(RuntimesFor(rows[sql_table_name(d)], d, cfg[d])) = 2
        /\ result[d].kind = "time"

\* The keys of a serialized assignment are in sorted order.
KeysSorted(text) ==
    \A i, j \in 1..Len(text) : i < j => KeyRank(text[i][1]) < KeyRank(text[j][1])

\* The run's measurement succeeded: timeit returned.
TimeitReturned(d) ==
    \E i \in 1..Len(trace[d]) : trace[d][i] = Event("timeit", "ok")

\* C3: a run that missed the cache and whose timeit returned ends having
\* appended exactly one row, which carries the driver's fingerprint and
\* transform-space identity, the key-sorted serialization of the candidate
\* and the measured runtime; the cost returned is that runtime.
C3_MeasuredRunRecordsOneRow ==
    \A d \in Drivers :
        (call[d] = "run" /\ pc[d] = "done" /\ TimeitReturned(d))
        => LET rs == rows[sql_table_name(d)]
               old == before[sql_table_name(d)]
               r == rs[Len(rs)]
           IN  /\ Len(rs) = Len(old) + 1
               /\ SubSeq(rs, 1, Len(old)) = old
               /\ RowIsFor(r, d, cfg[d])
               /\ KeysSorted(r.transform_params)
               /\ Len(r.transform_params) = Len(cfg[d])
               /\ r.transform_id = transform_space_id(d)
               /\ r.runtime_in_sec = runtime[d]
               /\ result[d] = Returned(runtime[d])
               /\ \A t \in TableNames \ {sql_table_name(d)} : rows[t] = before[t]

\* C3 witness: a measured run for a candidate proposed with its keys out of
\* order, on a table that already held a row.
C3_Witness ==
    \E d \in Drivers :
        /\ call[d] = "run" /\ pc[d] = "done" /\ TimeitReturned(d)
        /\ cfg[d][1][1] = "b"
        /\ Len(before[sql_table_name(d)]) >= 1
        /\ result[d].kind = "time"

\* A record has just been inserted by the driver (by record_into_db called
\* on its own, or by a run).
InsertOver(d) ==
    /\ pc[d] = "done"
    /\ \E i \in 1..Len(trace[d]) : trace[d][i] = Event("record_into_db", "ok")

\* C4: a record inserted with an assignment is found by a lookup with the
\* same name-to-value mapping in any key order, and the lookups in either
\* order return the same runtime: the inserted one when the key had no
\* record before, and never a larger one.
C4_LookupIgnoresKeyOrder ==
    \A d \in Drivers : \A q \in Configs :
        LET rs == rows[sql_table_name(d)]
        IN  /\ (InsertOver(d) /\ SameMapping(cfg[d], q))
               => /\ QueryFromDb(rs, d, q).kind = "time"
                  /\ QueryFromDb(rs, d, q) = QueryFromDb(rs, d, cfg[d])
                  /\ QueryFromDb(rs, d, q).time <= runtime[d]
                  /\ (RuntimesFor(before[sql_table_name(d)], d, q) = {}
                      => QueryFromDb(rs, d, q).time = runtime[d])
            /\ (LookupOver(d) /\ SameMapping(cfg[d], q))
               => result[d] = QueryFromDb(rs, d, q)

\* C4 witness: a lookup with the keys in the order b, a returned the runtime
\* of a row whose serialization has them in the order a, b.
C4_Witness ==
    \E d \in Drivers :
        LET rs == rows[sql_table_name(d)]
        IN  /\ LookupOver(d)
            /\ cfg[d][1][1] = "b"
            /\ Len(rs) = 1
            /\ rs[1].transform_params[1][1] = "a"
            /\ result[d] = Returned(rs[1].runtime_in_sec)

\* C5: a lookup raises ConfigurationNotInDBError exactly when no row is
\* stored for its key, and what it returns otherwise is the runtime of such
\* a row: never a zero or a null.
C5_NotFoundIffNoRow ==
    \A d \in Drivers :
        LookupOver(d)
        => LET found == RuntimesFor(rows[sql_table_name(d)], d, cfg[d])
           IN  /\ (found = {}) <=> (pc[d] = "raised"
                                    /\ result[d] = Raised("ConfigurationNotInDBError"))
               /\ (found # {}) <=> (pc[d] = "done" /\ result[d].kind = "time"
                                    /\ result[d].time \in found)

\* C5 witness: a lookup raised not-found on a table that holds rows, all of
\* them for other keys.
C5_Witness ==
    \E d \in Drivers :
        /\ LookupOver(d)
        /\ pc[d] = "raised"
        /\ Len(rows[sql_table_name(d)]) = MaxRows

\* A lookup hit: query_from_db returned, on its own or inside run.
LookupHit(d) ==
    /\ pc[d] = "done"
    /\ call[d] \in {"query_from_db", "run"}
    /\ trace[d] = <<Event("query_from_db", "ok")>>

\* C6 (as claimed): a lookup hits only on a row recorded under the driver's
\* own transform-space identity.
C6_HitOnlyOnOwnTransformSpace ==
    \A d \in Drivers :
        LookupHit(d)
        => \E i \in 1..Len(rows[sql_table_name(d)]) :
              /\ RowIsFor(rows[sql_table_name(d)][i], d, cfg[d])
              /\ rows[sql_table_name(d)][i].transform_id = transform_space_id(d)

\* C7: the store is append-only: no step of any operation (table-ensure,
\* lookup, seed enumeration, insert, run, or a process ending) drops a table
\* or removes, reorders or changes a committed row.
C7_StoreIsAppendOnly ==
    [][/\ tables \subseteq tables'
       /\ \A t \in TableNames :
             /\ Len(rows[t]) <= Len(rows'[t])
             /\ SubSeq(rows'[t], 1, Len(rows[t])) = rows[t]]_vars

\* C7 witness: a second record was inserted for a key that already had one,
\* and the first is still there.
C7_Witness ==
    \E d \in Drivers :
        LET rs == rows[sql_table_name(d)]
        IN  /\ InsertOver(d)
            /\ Len(rs) = 2
            /\ RowIsFor(rs[1], d, cfg[d]) /\ RowIsFor(rs[2], d, cfg[d])
            /\ rs[1] = before[sql_table_name(d)][1]
            /\ rs[1].runtime_in_sec # rs[2].runtime_in_sec

\* C8 (as claimed): once a measurement collaborator of a run has raised
\* InvalidParameterError, whether the roofline comparison or timeit, the run
\* has returned the infinite cost, inserted nothing, and the driver goes on.
C8_InvalidParameterIsInfeasible ==
    \A d \in Drivers :
        (call[d] = "run" /\ "InvalidParameterError" \in Outcomes(trace[d]))
        => /\ pc[d] = "done"
           /\ result[d] = ReturnedInf
           /\ rows = before

\* The errors of a measurement collaborator other than the invalid-parameter
\* kind.
FatalErrors == MeasureErrors \ {"InvalidParameterError"}

\* C9: an error of another kind raised by a measurement collaborator ends
\* the run at once: the same error leaves run, no cost is returned and no
\* row is inserted.
C9_OtherErrorsPropagate ==
    \A d \in Drivers : \A i \in 1..Len(trace[d]) :
        (call[d] = "run" /\ trace[d][i].out \in FatalErrors)
        => /\ i = Len(trace[d])
           /\ pc[d] = "raised"
           /\ result[d] = Raised(trace[d][i].out)
           /\ "record_into_db" \notin Calls(trace[d])
           /\ rows = before

\* C9 witness: timeit raised MemoryError after the roofline comparison went
\* through, on a table that holds a row.
C9_Witness ==
    \E d \in Drivers :
        /\ call[d] = "run" /\ pc[d] = "raised"
        /\ trace[d][Len(trace[d])] = Event("timeit", "MemoryError")
        /\ result[d] = Raised("MemoryError")
        /\ Len(rows[sql_table_name(d)]) >= 1

\* The feasibility filter of TileSizesTuner.run rejects candidate c.
TileRejects(c) == BlockLimitExceeded(c) \/ SharedMemoryLimitExceeded(c)

\* A measurement collaborator was called in the tile tuner's run.
TileMeasured ==
    Calls(tileTrace) \cap {"stringify_comparison_vs_roofline", "timeit"} # {}

\* The runtimes stored for candidate c in the tile tuner's table.
TileRuntimesFor(rs, c) ==
    {rs[i].runtime_in_sec : i \in {j \in 1..Len(rs) :
        /\ rs[j].i_tiles = c.i_tiles
        /\ rs[j].j_tiles = c.j_tiles
        /\ rs[j].n_e_per_wg = c.n_e_per_wg
        /\ rs[j].nwork_items_per_e = c.nwork_items_per_e
        /\ rs[j].prftch_u_to_local = c.prftch_u_to_local[2]}}

\* C10 (as claimed): for whatever the store holds, a run for a candidate the
\* feasibility filter rejects returns the infinite cost and measures
\* nothing.
C10_RejectedIsAlwaysInfinite ==
    (tileCall = "run" /\ tilePc = "done" /\ TileRejects(tileCfg))
    => /\ tileResult = ReturnedInf
       /\ ~TileMeasured

\* C10 (amended): a run for a candidate the feasibility filter rejects never
\* calls a measurement collaborator and inserts nothing; it returns the
\* infinite cost when the store has no record of the candidate, and the
\* minimum cached runtime when it has, the lookup coming before the filter.
C10_RejectedIsNeverMeasured ==
    (tileCall = "run" /\ tilePc \notin {"idle", "query", "filter"}
     /\ TileRejects(tileCfg))
    => /\ tilePc = "done"
       /\ ~TileMeasured
       /\ tileRows = tileBefore
       /\ IF TileRuntimesFor(tileBefore, tileCfg) = {}
          THEN tileResult = ReturnedInf
          ELSE /\ tileResult.kind = "time"
               /\ IsMinimumOf(tileResult.time, TileRuntimesFor(tileBefore, tileCfg))

\* C10 witness: a candidate within the block dimension limit and over the
\* shared memory limit was proposed on a store that holds rows, and the run
\* returned the infinite cost without measuring.
C10_Witness ==
    /\ tileCall = "run" /\ tilePc = "done"
    /\ ~BlockLimitExceeded(tileCfg) /\ SharedMemoryLimitExceeded(tileCfg)
    /\ tileResult = ReturnedInf
    /\ tileTrace = <<Event("query_from_db", "ConfigurationNotInDBError")>>
    /\ Len(tileRows) >= 1

\* seed_configurations has returned its list.
SeedOver(d) == call[d] = "seed_configurations" /\ pc[d] = "done"

\* Row r was recorded under driver d's transform-space identity and problem
\* fingerprint.
RowIsOf(r, d) ==
    /\ r.transform_id = transform_space_id(d)
    /\ r.subscripts = Einsum(d).subscripts
    /\ r.index_to_length = Einsum(d).index_to_length
    /\ r.use_matrix = Einsum(d).use_matrix
    /\ r.value_to_dtype = Einsum(d).value_to_dtype
    /\ r.giga_op_info = OpInfo(d)

\* The assignments (as name-to-value mappings) recorded under driver d's
\* pair in the rows rs.
RecordedFor(rs, d) ==
    {ItemsOf(JsonLoads(rs[i].transform_params)) :
        i \in {j \in 1..Len(rs) : RowIsOf(rs[j], d)}}

\* C11 (as claimed): the list seed_configurations returns holds every
\* assignment recorded for the driver's (transform-space identity,
\* fingerprint) pair, each exactly once however often it was recorded, and
\* no assignment recorded under another identity or fingerprint.
C11_SeedsAreTheDistinctAssignments ==
    \A d \in Drivers :
        SeedOver(d)
        => /\ {ItemsOf(seeds[d][i]) : i \in 1..Len(seeds[d])}
                 = RecordedFor(rows[sql_table_name(d)], d)
           /\ \A i, j \in 1..Len(seeds[d]) :
                 i # j => ~SameMapping(seeds[d][i], seeds[d][j])

\* A run of d measured its candidate and has returned.
MeasuredRunOver(d) == call[d] = "run" /\ pc[d] = "done" /\ TimeitReturned(d)

\* The run of d missed the cache: its lookup raised not-found.
RunMissed(d) ==
    /\ call[d] = "run"
    /\ Len(trace[d]) >= 1
    /\ trace[d][1] = Event("query_from_db", "ConfigurationNotInDBError")

\* One driver for each problem fingerprint the drivers tune (d1 and d2 tune
\* the same einsum): between them their lookups cover every lookup key.
Fingerprint(d) == <<Einsum(d), OpInfo(d)>>
OnePerFingerprint ==
    {CHOOSE d \in Drivers : Fingerprint(d) = f : f \in {Fingerprint(e) : e \in Drivers}}

\* C12: with driver processes interleaving the steps of their runs on one
\* store, (1) the row of every run that measured and returned is in the
\* table, and a runtime a lookup returned is still recorded for its key;
\* (2) a lookup of any key on the rows committed so far gives the minimum
\* runtime over all rows recorded for it by any driver, and not-found only
\* when there is none; (3) every step leaves the committed rows in place and
\* adds at most one row after them.  What may happen is that two runs
\* measure and record the same candidate.
C12_InterleavedRunsLoseNoRecord ==
    /\ [](/\ \A d \in Drivers :
              LET rs == rows[sql_table_name(d)]
              IN  /\ MeasuredRunOver(d)
                     => \E i \in 1..Len(rs) : rs[i] = NewRow(d, runtime[d], cfg[d])
                  /\ (LookupOver(d) /\ result[d].kind = "time")
                     => result[d].time \in RuntimesFor(rs, d, cfg[d])
          /\ \A e \in OnePerFingerprint : \A q \in Configs :
              LET found == RuntimesFor(rows[sql_table_name(e)], e, q)
                  got == QueryFromDb(rows[sql_table_name(e)], e, q)
              IN  IF found = {}
                  THEN got = Raised("ConfigurationNotInDBError")
                  ELSE got.kind = "time" /\ IsMinimumOf(got.time, found))
    /\ [][\A t \in TableNames :
             /\ Len(rows'[t]) \in {Len(rows[t]), Len(rows[t]) + 1}
             /\ SubSeq(rows'[t], 1, Len(rows[t])) = rows[t]]_vars

\* C12 witness: two drivers both missed the cache for the same candidate
\* (one proposed it with its keys in the other order), both measured it,
\* and both rows are in the table: the duplicate measurement.
C12_Witness ==
    \E d, e \in Drivers :
        LET rs == rows[sql_table_name(d)]
        IN  /\ d # e
            /\ MeasuredRunOver(d) /\ MeasuredRunOver(e)
            /\ RunMissed(d) /\ RunMissed(e)
            /\ SameMapping(cfg[d], cfg[e]) /\ cfg[d] # cfg[e]
            /\ runtime[d] < runtime[e]
            /\ Len(rs) = 2
            /\ rs[1] = NewRow(d, runtime[d], cfg[d])
            /\ rs[2] = NewRow(e, runtime[e], cfg[e])

\* A step at which a driver's process is killed inside run.
Killed(d) == call[d] = "run" /\ pc[d] \in RunSteps /\ pc'[d] = "idle"

\* C13: an open transaction exists only inside record_into_db, between its
\* INSERT and its commit, and holds the one row of the candidate being
\* recorded; once record_into_db has returned the row is committed.  So
\* when a driver's process is killed at any step of a run, the committed
\* rows (those of all candidates completed before) stay as they are and
\* only the row of the candidate in flight can be missing.
C13_InsertIsCommittedBeforeReturn ==
    /\ [](\A d \in Drivers :
            LET rs == rows[sql_table_name(d)]
            IN  /\ txn[d] # <<>>
                   => /\ pc[d] = "commit"
                      /\ txn[d] = <<NewRow(d, runtime[d], cfg[d])>>
                /\ InsertOver(d)
                   => /\ txn[d] = <<>>
                      /\ \E i \in 1..Len(rs) : rs[i] = NewRow(d, runtime[d], cfg[d]))
    /\ [][\A d \in Drivers :
             Killed(d) => /\ rows' = rows
                          /\ tables' = tables
                          /\ txn'[d] = <<>>
                          /\ \A t \in TableNames :
                                SubSeq(rows'[t], 1, Len(before[t])) = before[t]]_vars

\* C13 witness: a driver's process was killed between the INSERT and the
\* commit of its candidate, on a table that held the row of a candidate
\* completed before; that row is there and the transaction is gone.
C13_Witness ==
    \E d \in Drivers :
        /\ died = [who |-> d, at |-> "commit"]
        /\ pc[d] = "idle"
        /\ txn[d] = <<>>
        /\ Len(rows[sql_table_name(d)]) >= 1
        /\ rows = before

\* The step at which a table-ensure (the conn property) is performed by d.
TableEnsured(d) == pc[d] = "idle" /\ pc'[d] = "done" /\ call'[d] = "conn"

\* C14: a table-ensure leaves the store with the device table in it: it
\* adds the table's name when it is absent and nothing otherwise; on a store
\* that has the table already (ensured before by this process, an earlier
\* one or another driver) it changes neither the tables nor any row, and it
\* returns the connection without an error.
C14_TableEnsureIsIdempotent ==
    [][\A d \in Drivers :
          TableEnsured(d)
          => /\ tables' = tables \cup {sql_table_name(d)}
             /\ (sql_table_name(d) \in tables => tables' = tables)
             /\ rows' = rows
             /\ result'[d] = ReturnedConn]_vars

\* C14 witness: table-ensure has returned on a table that held rows, which
\* are all there.
C14_Witness ==
    \E d \in Drivers :
        /\ call[d] = "conn" /\ pc[d] = "done"
        /\ result[d] = ReturnedConn
        /\ sql_table_name(d) \in tables
        /\ Len(rows[sql_table_name(d)]) = MaxRows
        /\ rows = before

\* The value is a Python integer.
IsInteger(v) == v[1] = "int"

\* C15: IntParameter(low, high) with two integers gives an object whose low
\* and high are the values given; with a non-integer low it raises
\* ValueError naming low (whatever high is), with an integer low and a
\* non-integer high ValueError naming high, and then there is no object.
C15_IntParameterValidatesBounds ==
    \A i \in 1..Len(params) :
        LET c == params[i]
        IN  /\ (IsInteger(c.low) /\ IsInteger(c.high))
               => /\ c.out.kind = "IntParameter"
                  /\ c.out.low = c.low /\ c.out.high = c.high
            /\ ~IsInteger(c.low)
               => /\ c.out.kind = "raise" /\ c.out.exc = "ValueError"
                  /\ c.out.msg = "low must be an integer"
                  /\ c.out.low = NoValue /\ c.out.high = NoValue
            /\ (IsInteger(c.low) /\ ~IsInteger(c.high))
               => /\ c.out.kind = "raise" /\ c.out.exc = "ValueError"
                  /\ c.out.msg = "high must be an integer"
                  /\ c.out.low = NoValue /\ c.out.high = NoValue

\* C15 witness: a construction with integer bounds gave the pair, and one
\* with a float low and a str high raised the error that names low.
C15_Witness ==
    /\ Len(params) = 2
    /\ params[1].out.kind = "IntParameter"
    /\ params[1].out.low = <<"int", 1>> /\ params[1].out.high = <<"int", 2>>
    /\ params[2].low[1] = "float" /\ params[2].high[1] = "str"
    /\ params[2].out.msg = "low must be an integer"

\* C16 (as claimed): every IntParameter constructed has low <= high.
C16_ConstructedRangeIsOrdered ==
    \A i \in 1..Len(params) :
        params[i].out.kind = "IntParameter"
        => params[i].out.low[2] <= params[i].out.high[2]

\* The bind_args calls made so far were all made on one object, whose
\* derived-argument bindings have different functions.
BindsOfOneTransform ==
    \A k \in 1..Len(binds) :
        /\ binds[k].obj = binds[1].obj
        /\ \A f \in Funcs : CallsOf(objs[binds[k].obj], f) <= 1

\* C17 (as claimed): over any number of bind_args calls of one
\* ParametrizedTransform, a derived-argument function has run at most once
\* on a problem instance.
C17_DerivedArgumentIsComputedOnce ==
    BindsOfOneTransform => \A fe \in Funcs \X Einsums : invoked[fe] <= 1

\* C18: a bind_args call leaves every ParametrizedTransform as it was (its
\* callable and both binding tuples) and the callables returned before as
\* they were; and what a bind returned is what the object, the problem
\* instance and the tunable values of that call determine, whatever other
\* binds were made.
C18_BindLeavesTransformUnchanged ==
    /\ [](\A k \in 1..Len(binds) :
            binds[k].out = BindArgsOf(objs[binds[k].obj], binds[k].einsum,
                                      binds[k].args))
    /\ [][Len(binds') = Len(binds) + 1
          => /\ objs' = objs
             /\ made' = made
             /\ SubSeq(binds', 1, Len(binds)) = binds]_vars

\* C18 witness: one object with derived and tunable bindings was bound
\* twice on the same problem instance with different tunable values, and
\* the two callables returned hold their own values.
C18_Witness ==
    /\ Len(binds) = 2
    /\ binds[1].obj = binds[2].obj
    /\ binds[1].einsum = binds[2].einsum
    /\ binds[1].out.kind = "partial" /\ binds[2].out.kind = "partial"
    /\ binds[1].args # binds[2].args
    /\ binds[1].out.keywords # binds[2].out.keywords
    /\ objs[binds[1].obj].einsum_derivative_args # <<>>
    /\ objs[binds[1].obj].transform_params # <<>>

\* The value a dict holds under key k.
DictGet(dict, k) == (CHOOSE it \in ItemsOf(dict) : it[1] = k)[2]

\* C19 (as claimed): every bind_args call returns a partial of the object's
\* callable whose keywords are the derived arguments' names and the tunable
\* names, a tunable name bound to the caller's value (also when a derived
\* argument has that name) and any other name to its binding's function
\* applied to the problem instance.
C19_BindMergesTunableOverDerived ==
    \A k \in 1..Len(binds) :
        LET b == binds[k]
            self == objs[b.obj]
            derived == {<<arg.var_name, Derived(arg.func, b.einsum)>> :
                           arg \in ItemsOf(self.einsum_derivative_args)}
        IN  /\ b.out.kind = "partial"
            /\ b.out.func = self.transform
            /\ Keys(b.out.keywords) = Keys(b.args) \cup {it[1] : it \in derived}
            /\ \A it \in ItemsOf(b.out.keywords) :
                  IF it[1] \in Keys(b.args) THEN it[2] = DictGet(b.args, it[1])
                                           ELSE it \in derived
            /\ \A i, j \in 1..Len(b.out.keywords) :
                  i # j => b.out.keywords[i][1] # b.out.keywords[j][1]

\* The bindings of one kind attached along the line of objects objs[i] was
\* made from, in the order they were attached.
RECURSIVE Attached(_, _)
Attached(i, kind) ==
    IF i = 0 THEN <<>>
    ELSE Attached(made[i].on, kind)
         \o (IF made[i].kind = kind THEN <<made[i].by>> ELSE <<>>)

\* seq, back to front.
Reverse(seq) == [i \in 1..Len(seq) |-> seq[Len(seq) + 1 - i]]

\* C20: an object made by attaching a binding to a ParametrizedTransform
\* has that object's callable, the new binding followed by that object's
\* bindings in the list of the binding's kind, and that object's other
\* list; so each list of any object is the bindings of its kind in reverse
\* attachment order; and an attachment leaves the objects made before as
\* they were.
C20_AttachPrependsToNewTransform ==
    /\ [](\A i \in 1..Len(objs) :
            /\ made[i].on # 0
               => LET fn == objs[made[i].on]
                  IN  /\ objs[i].transform = fn.transform
                      /\ IF made[i].kind = "einsum_arg"
                         THEN /\ objs[i].einsum_derivative_args
                                    = <<made[i].by>> \o fn.einsum_derivative_args
                              /\ objs[i].transform_params = fn.transform_params
                         ELSE /\ objs[i].transform_params
                                    = <<made[i].by>> \o fn.transform_params
                              /\ objs[i].einsum_derivative_args
                                    = fn.einsum_derivative_args
            /\ objs[i].einsum_derivative_args = Reverse(Attached(i, "einsum_arg"))
            /\ objs[i].transform_params = Reverse(Attached(i, "transform_param")))
    /\ [][Len(objs') = Len(objs) + 1 => SubSeq(objs', 1, Len(objs)) = objs]_vars

\* C20 witness: a second, different derived argument was attached to an
\* object that had one; the new object lists the new one first and has the
\* same callable.
C20_Witness ==
    \E i \in 1..Len(objs) :
        /\ made[i].kind = "einsum_arg"
        /\ made[i].on # 0
        /\ Len(objs[i].einsum_derivative_args) = 2
        /\ objs[i].einsum_derivative_args[1] = made[i].by
        /\ objs[i].einsum_derivative_args[1] # objs[i].einsum_derivative_args[2]
        /\ objs[i].transform = objs[made[i].on].transform
        /\ Len(objs[made[i].on].einsum_derivative_args) = 1

\* C21: a load returns the module's transform itself when that is a
\* ParametrizedTransform; a ParametrizedTransform of the raw callable with
\* both binding lists empty when it is a plain callable; and raises an error
\* and returns no transform when the path is no loadable module, the module
\* has no transform or the transform is not callable.  A load touches
\* neither the store nor any driver's call.
C21_LoaderReturnsOrWrapsOrFails ==
    /\ [](\A k \in 1..Len(loads) :
            LET m == loads[k].module
                out == loads[k].out
                Loadable == m.py /\ m.spec /\ m.exec = "ok"
            IN  /\ (Loadable /\ m.has /\ m.transform[1] = "ParametrizedTransform")
                   => out = LoadReturned(m.transform[2])
                /\ (Loadable /\ m.has /\ m.transform[1] = "function")
                   => /\ out.kind = "ParametrizedTransform"
                      /\ out.value.transform = m.transform[2]
                      /\ out.value.einsum_derivative_args = <<>>
                      /\ out.value.transform_params = <<>>
                /\ (~Loadable \/ ~m.has
                       \/ m.transform[1] \notin {"ParametrizedTransform", "function"})
                   => /\ out.kind = "raise"
                      /\ out.exc # ""
                      /\ out.value = NoTransform)
    /\ [][Len(loads') = Len(loads) + 1
          => /\ UNCHANGED <<tunerVars, tileVars>>
             /\ objs' = objs
             /\ SubSeq(loads', 1, Len(loads)) = loads]_vars

\* C21 witness: a module whose transform carries two bindings was loaded
\* and came back as it is, and a module whose transform is an int failed to
\* load.
C21_Witness ==
    /\ Len(loads) = 2
    /\ loads[1].module.transform[1] = "ParametrizedTransform"
    /\ loads[1].out.kind = "ParametrizedTransform"
    /\ Len(loads[1].out.value.einsum_derivative_args) = 1
    /\ Len(loads[1].out.value.transform_params) = 1
    /\ loads[2].module.transform = <<"int", 3>>
    /\ loads[2].module.exec = "ok" /\ loads[2].module.has
    /\ loads[2].out = LoadRaised("AssertionError")

\* The place of a collaborator in the order of run's steps.
StepRank(c) ==
    CASE c = "query_from_db" -> 1
      [] c = "bind_args" -> 2
      [] c = "stringify_comparison_vs_roofline" -> 3
      [] c = "timeit" -> 4
      [] c = "record_into_db" -> 5

Miss == Event("query_from_db", "ConfigurationNotInDBError")

\* The collaborators of trace tr were called in the order of run's steps,
\* the lookup first, anything after it only when it missed, nothing after a
\* step that failed, and the insert only after timeit returned.
StepsInOrder(tr) ==
    /\ \A i, j \in 1..Len(tr) : i < j => StepRank(tr[i].call) < StepRank(tr[j].call)
    /\ Len(tr) >= 1 => tr[1].call = "query_from_db"
    /\ Len(tr) >= 2 => tr[1] = Miss
    /\ \A i \in 2..Len(tr) : i < Len(tr) => tr[i].out = "ok"
    /\ \A i \in 1..Len(tr) :
          tr[i].call = "record_into_db"
          => /\ tr[i].out = "ok"
             /\ \E j \in 1..(i - 1) : tr[j] = Event("timeit", "ok")

\* The four ways a run ends, by what it returned or raised (res), the
\* collaborators it called (tr), the runtime it holds (rt) and whether it
\* ended by raising.
EndsCached(res, tr) == res.kind = "time" /\ tr = <<Event("query_from_db", "ok")>>
EndsInfeasible(res, tr) ==
    /\ res = ReturnedInf
    /\ tr[1] = Miss
    /\ "timeit" \notin Calls(tr) /\ "record_into_db" \notin Calls(tr)
EndsMeasured(res, tr, rt) ==
    /\ res = Returned(rt)
    /\ tr[1] = Miss
    /\ tr[Len(tr)] = Event("record_into_db", "ok")
    /\ tr[Len(tr) - 1] = Event("timeit", "ok")
EndsFatal(res, tr) ==
    /\ res.kind = "raise"
    /\ tr[1] = Miss
    /\ tr[Len(tr)].out = res.exc
    /\ tr[Len(tr)].call \in {"stringify_comparison_vs_roofline", "timeit"}
    /\ "record_into_db" \notin Calls(tr)

\* Exactly one of the four.
OneOutcome(res, tr, rt, raised) ==
    /\ Len(tr) >= 1
    /\ Cardinality({k \in 1..4 :
           CASE k = 1 -> ~raised /\ EndsCached(res, tr)
             [] k = 2 -> ~raised /\ EndsInfeasible(res, tr)
             [] k = 3 -> ~raised /\ EndsMeasured(res, tr, rt)
             [] k = 4 -> raised /\ EndsFatal(res, tr)}) = 1

\* C23: in OpentunerTuner.run and in TileSizesTuner.run alike, the steps
\* of a run come in the order lookup, feasibility filter (the tile tuner's
\* resource checks), bind, roofline comparison, timeit, insert; the run is
\* past its lookup only when the lookup missed, a measurement collaborator
\* of the tile tuner is called only for a candidate its filter let through,
\* a row is inserted (or waits in the open transaction) only after timeit
\* returned; and a run that is over ended in exactly one of: the cached
\* cost, the infinite cost, the measured cost, an error raised to the caller.
C23_RunStepsInOrderOneOutcome ==
    /\ \A d \in Drivers :
          call[d] = "run"
          => /\ StepsInOrder(trace[d])
             /\ pc[d] \in {"bind", "roofline", "timeit", "record", "commit"}
                => trace[d][1] = Miss
             /\ pc[d] \in {"roofline", "timeit", "record", "commit"}
                => "bind_args" \in Calls(trace[d])
             /\ (txn[d] # <<>> \/ rows # before) => TimeitReturned(d)
             /\ pc[d] \in {"done", "raised"}
                => OneOutcome(result[d], trace[d], runtime[d], pc[d] = "raised")
    /\ tileCall = "run"
       => /\ StepsInOrder(tileTrace)
          /\ tilePc \in {"filter", "roofline", "timeit", "record"}
             => tileTrace[1] = Miss
          /\ TileMeasured => ~TileRejects(tileCfg)
          /\ tileRows # tileBefore
             => \E i \in 1..Len(tileTrace) : tileTrace[i] = Event("timeit", "ok")
          /\ tilePc \in {"done", "raised"}
             => OneOutcome(tileResult, tileTrace, tileRuntime, tilePc = "raised")

\* C23 witness: a run of the driver ended with the infinite cost after its
\* lookup missed on a table that holds a row, the candidate was bound and
\* the roofline comparison raised InvalidParameterError.
C23_Witness ==
    \E d \in Drivers :
        /\ call[d] = "run" /\ pc[d] = "done"
        /\ result[d] = ReturnedInf
        /\ trace[d] = <<Miss, Event("bind_args", "ok"),
                        Event("stringify_comparison_vs_roofline",
                              "InvalidParameterError")>>
        /\ Len(rows[sql_table_name(d)]) >= 1

\* C24: with the rows all recorded by runs: (1) when a run has measured and
\* recorded its candidate, a lookup of the same name-to-value mapping in
\* either key order hits and gives no more than the recorded runtime;
\* (2) a run for an assignment the driver has a record of (a row under its
\* transform-space identity and fingerprint, with that mapping) in the
\* table it found is over after its lookup: a hit, no bind and no timeit,
\* and a cost no larger than any such record; (3) so no two rows of a
\* driver record the same assignment.
C24_RecordedCandidateIsNotTimedAgain ==
    \A d \in Drivers :
        LET rs == rows[sql_table_name(d)]
            old == before[sql_table_name(d)]
            mine == {i \in 1..Len(old) :
                       RowIsOf(old[i], d) /\ RowIsFor(old[i], d, cfg[d])}
        IN  /\ MeasuredRunOver(d)
               => \A q \in Configs :
                     SameMapping(q, cfg[d])
                     => /\ QueryFromDb(rs, d, q).kind = "time"
                        /\ QueryFromDb(rs, d, q).time <= runtime[d]
            /\ (RunPastLookup(d) /\ mine # {})
               => /\ pc[d] = "done"
                  /\ trace[d] = <<Event("query_from_db", "ok")>>
                  /\ result[d].kind = "time"
                  /\ \A i \in mine : result[d].time <= old[i].runtime_in_sec
                  /\ rows = before
            /\ \A i, j \in 1..Len(rs) :
                  (i # j /\ RowIsOf(rs[i], d) /\ RowIsOf(rs[j], d))
                  => ItemsOf(rs[i].transform_params) # ItemsOf(rs[j].transform_params)

\* C24 witness: the driver recorded two candidates in earlier runs, and a
\* run for the first of them, proposed with its keys in the other order,
\* ended in a hit that returned the recorded runtime.
C24_Witness ==
    \E d \in Drivers :
        LET rs == rows[sql_table_name(d)]
        IN  /\ call[d] = "run" /\ pc[d] = "done"
            /\ trace[d] = <<Event("query_from_db", "ok")>>
            /\ cfg[d][1][1] = "b"
            /\ Len(rs) = 2
            /\ RowIsOf(rs[1], d) /\ RowIsOf(rs[2], d)
            /\ RowIsFor(rs[1], d, cfg[d]) /\ ~RowIsFor(rs[2], d, cfg[d])
            /\ result[d] = Returned(rs[1].runtime_in_sec)

\* C25: at every step of any sequence of inserts, runs, lookups, seed
\* enumerations, restarts and process deaths, and for every lookup key (a
\* problem fingerprint and an assignment): a key whose lookup hits before
\* the step hits after it, with a runtime no larger; and the runtime is
\* smaller only when the step added one row for that key, with that
\* strictly smaller runtime.
C25_HitsStayAndNeverIncrease ==
    [][\A e \in OnePerFingerprint : \A q \in Configs :
          LET old == rows[sql_table_name(e)]
              new == rows'[sql_table_name(e)]
              was == QueryFromDb(old, e, q)
              is == QueryFromDb(new, e, q)
          IN  (new # old /\ was.kind = "time")
              => /\ is.kind = "time"
                 /\ is.time <= was.time
                 /\ is.time < was.time
                    => /\ Len(new) = Len(old) + 1
                       /\ SubSeq(new, 1, Len(old)) = old
                       /\ RowIsFor(new[Len(new)], e, q)
                       /\ new[Len(new)].runtime_in_sec = is.time]_vars

\* C25 witness: a key had a record with the runtime 2, and a record with
\* the runtime 1 was inserted for it: the lookup of the key, which gave 2,
\* gives 1.
C25_Witness ==
    \E d \in Drivers :
        LET rs == rows[sql_table_name(d)]
            old == before[sql_table_name(d)]
        IN  /\ InsertOver(d)
            /\ Len(old) = 1 /\ Len(rs) = 2
            /\ QueryFromDb(old, d, cfg[d]) = Returned(2)
            /\ runtime[d] = 1
            /\ QueryFromDb(rs, d, cfg[d]) = Returned(1)

\* C26: every configuration in the list seed_configurations returned is
\* found by query_from_db of the same driver on the same store: the lookup
\* does not raise not-found, and returns a runtime recorded for that
\* configuration.
C26_SeedsAreCacheHits ==
    \A d \in Drivers :
        SeedOver(d)
        => \A i \in 1..Len(seeds[d]) :
              LET got == QueryFromDb(rows[sql_table_name(d)], d, seeds[d][i])
              IN  /\ got.kind = "time"
                  /\ got.time \in RuntimesFor(rows[sql_table_name(d)], d, seeds[d][i])

\* C26 witness: the table holds a row of the driver and a row recorded for
\* another problem under the same transform-space identity, and the seed
\* list holds the one configuration of the driver's row.
C26_Witness ==
    \E d \in Drivers :
        LET rs == rows[sql_table_name(d)]
        IN  /\ SeedOver(d)
            /\ Len(seeds[d]) = 1
            /\ Len(rs) = 2
            /\ \E i, j \in 1..2 :
                  /\ RowIsOf(rs[i], d)
                  /\ rs[j].transform_id = transform_space_id(d)
                  /\ rs[j].index_to_length # Einsum(d).index_to_length
            /\ QueryFromDb(rs, d, seeds[d][1]).kind = "time"

\* A run of d returned the infinite cost.
EndedInfeasible(d) == call[d] = "run" /\ pc[d] = "done" /\ result[d] = ReturnedInf

\* C27: in both tuners, a run that returned the infinite cost has inserted
\* nothing (the rows are those it found, no INSERT was made), and the
\* lookup of its candidate still raises not-found; every row carries a
\* runtime that timeit can return; and a step of a run adds a row only
\* after the run's timeit returned, the row carrying the runtime it
\* returned.
C27_InfeasibleIsNeverRecorded ==
    /\ [](/\ \A d \in Drivers :
              EndedInfeasible(d)
              => /\ rows = before
                 /\ txn[d] = <<>>
                 /\ "record_into_db" \notin Calls(trace[d])
                 /\ QueryFromDb(rows[sql_table_name(d)], d, cfg[d])
                       = Raised("ConfigurationNotInDBError")
          /\ (tileCall = "run" /\ tilePc = "done" /\ tileResult = ReturnedInf)
              => /\ tileRows = tileBefore
                 /\ "record_into_db" \notin Calls(tileTrace)
                 /\ TileQueryFromDb(tileRows, tileCfg)
                       = Raised("ConfigurationNotInDBError")
          /\ \A t \in TableNames : \A i \in 1..Len(rows[t]) :
                rows[t][i].runtime_in_sec \in Runtimes
          /\ \A i \in 1..Len(tileRows) : tileRows[i].runtime_in_sec \in Runtimes)
    /\ [][/\ \A d \in Drivers :
              (call[d] = "run" /\ rows' # rows)
              => /\ TimeitReturned(d)
                 /\ rows' = [rows EXCEPT ![sql_table_name(d)] =
                                Append(@, NewRow(d, runtime[d], cfg[d]))]
          /\ (tileCall = "run" /\ tileRows' # tileRows)
              => /\ \E i \in 1..Len(tileTrace) : tileTrace[i] = Event("timeit", "ok")
                 /\ tileRows' = TileRecordIntoDb(tileRows, tileCfg, tileRuntime)]_vars

\* C27 witness: on a table that holds the driver's record of another
\* candidate, a run found its candidate infeasible and returned the
\* infinite cost; the table is as it was.
C27_Witness ==
    \E d \in Drivers :
        LET rs == rows[sql_table_name(d)]
        IN  /\ EndedInfeasible(d)
            /\ Len(rs) = 1
            /\ RowIsOf(rs[1], d)
            /\ ~RowIsFor(rs[1], d, cfg[d])
            /\ rows = before

\* The step is a store operation of driver d: table-ensure, a seed
\* enumeration, a lookup or an insert called on the driver, or the lookup
\* or the INSERT of a run.
StoreStep(d) ==
    \/ pc[d] = "idle"
       /\ call'[d] \in {"conn", "seed_configurations", "query_from_db", "record_into_db"}
    \/ call[d] = "run" /\ pc[d] = "query" /\ pc'[d] \in {"bind", "done"}
    \/ call[d] = "run" /\ pc[d] = "record" /\ pc'[d] = "commit"

\* C28: a driver instance has a connection exactly when it has opened one,
\* and it never opens a second; a connection is opened only at a store
\* operation of a driver that has none (the first of the instance: not at
\* construction, nor when a run begins); the device table is created only
\* at such a step; and a store operation of a driver that has a connection
\* keeps it and opens nothing.
C28_ConnectionIsOpenedOnceLazily ==
    /\ [](\A d \in Drivers :
            /\ opened[d] <= 1
            /\ conn[d] <=> opened[d] = 1
            /\ conn[d] => sql_table_name(d) \in tables)
    /\ [][/\ \A d \in Drivers :
              /\ opened'[d] > opened[d] => (~conn[d] /\ conn'[d] /\ StoreStep(d))
              /\ (conn[d] /\ StoreStep(d))
                 => (conn'[d] /\ opened'[d] = opened[d] /\ tables' = tables)
              /\ (~conn[d] /\ StoreStep(d)) => (conn'[d] /\ opened'[d] = 1)
          /\ tables' # tables => \E d \in Drivers : opened'[d] > opened[d]]_vars

\* C28 witness: a run looked its candidate up on a table that held a row
\* and, after measuring, recorded it: two store operations of one driver
\* instance, which has opened one connection.
C28_Witness ==
    \E d \in Drivers :
        /\ MeasuredRunOver(d)
        /\ opened[d] = 1 /\ conn[d]
        /\ Len(rows[sql_table_name(d)]) = 2
        /\ Len(before[sql_table_name(d)]) = 1

\* C29: when every tunable-parameter binding of the driver's transform
\* gives an IntParameter or a BoolParameter, manipulator() returns a
\* configuration space with one parameter per binding, in the bindings'
\* order and under their names: an IntegerParameter from the IntParameter's
\* low to its high, a BooleanParameter for a BoolParameter; when a binding
\* gives a TuningParameter of another kind it raises NotImplementedError
\* and returns no space.
C29_ManipulatorHasOneParameterPerBinding ==
    \A k \in 1..Len(manips) :
        LET c == manips[k]
            tps == objs[c.obj].transform_params
            tp(i) == TuningParamOf(tps[i].func, c.einsum)
        IN  IF \A i \in 1..Len(tps) : tp(i).kind \in {"IntParameter", "BoolParameter"}
            THEN /\ c.out.kind = "manipulator"
                 /\ Len(c.out.params) = Len(tps)
                 /\ \A i \in 1..Len(tps) :
                       /\ c.out.params[i].name = tps[i].var_name
                       /\ tp(i).kind = "IntParameter"
                          => /\ c.out.params[i].type = "IntegerParameter"
                             /\ c.out.params[i].min_value = tp(i).low
                             /\ c.out.params[i].max_value = tp(i).high
                       /\ tp(i).kind = "BoolParameter"
                          => c.out.params[i].type = "BooleanParameter"
            ELSE /\ c.out.kind = "raise"
                 /\ c.out.exc = "NotImplementedError"
                 /\ c.out.params = <<>>

\* C29 witness: a transform with a boolean and an integer tunable gave a
\* space of a BooleanParameter "b" and an IntegerParameter "a" from 1 to 2.
C29_Witness ==
    /\ Len(manips) = 1
    /\ manips[1].out.kind = "manipulator"
    /\ manips[1].out.params
          = <<BooleanParameter("b"), IntegerParameter("a", <<"int", 1>>, <<"int", 2>>)>>
    /\ Len(objs[manips[1].obj].transform_params) = 2

\* The first object of the line of attachments objs[i] was made along: the
\* one made from the raw callable.
RECURSIVE Root(_)
Root(i) == IF made[i].on = 0 THEN i ELSE Root(made[i].on)

\* C30: an object made by attaching a binding to the raw callable has a
\* memoizing wrapper of it as its transform, and every object made from it
\* by further attachments has that same wrapper; of two calls with the
\* same arguments made on objects of one such line (the same object or
\* not), only the first invokes the raw callable and the second returns
\* the very result of the first.
C30_AttachedTransformIsMemoized ==
    /\ \A i \in 1..Len(objs) :
          /\ objs[i].transform.wrapper = "cache"
          /\ objs[i].transform.fn = RawTransform.fn
          /\ objs[i].transform = objs[Root(i)].transform
          /\ \A j \in 1..Len(objs) :
                (Root(i) # Root(j)) => objs[i].transform # objs[j].transform
    /\ \A j, k \in 1..Len(xcalls) :
          (j < k /\ Root(xcalls[j].obj) = Root(xcalls[k].obj)
                 /\ xcalls[j].kwargs = xcalls[k].kwargs)
          => /\ ~xcalls[k].ran
             /\ xcalls[k].out = xcalls[j].out
    /\ \A k \in 1..Len(xcalls) :
          (\A j \in 1..(k - 1) :
              ~(Root(xcalls[j].obj) = Root(xcalls[k].obj)
                /\ xcalls[j].kwargs = xcalls[k].kwargs))
          => xcalls[k].ran

\* C30 witness: a transform was called, and then the object made from it
\* by a further attachment was called with the same arguments: the raw
\* callable ran once and both calls returned the same kernel.
C30_Witness ==
    /\ Len(xcalls) = 2
    /\ xcalls[1].obj # xcalls[2].obj
    /\ made[xcalls[2].obj].on = xcalls[1].obj
    /\ xcalls[1].kwargs = xcalls[2].kwargs
    /\ xcalls[1].ran /\ ~xcalls[2].ran
    /\ xcalls[1].out = xcalls[2].out
    /\ RawRuns = 1

\* A read of the store by driver d: query_from_db or seed_configurations
\* called on its own returns or raises, or run's lookup step is taken.
ReadStep(d) ==
    \/ /\ pc[d] = "idle"
       /\ pc'[d] \in {"done", "raised"}
       /\ call'[d] \in {"query_from_db", "seed_configurations"}
    \/ call[d] = "run" /\ pc[d] = "query" /\ pc'[d] \in {"bind", "done"}

\* A run is over without a measurement: it returned the cached runtime or
\* the infinite cost, or an error left it.
RunOverUnmeasured(d) ==
    /\ call[d] = "run"
    /\ pc[d] \in {"done", "raised"}
    /\ ~TimeitReturned(d)

\* C31: query_from_db and seed_configurations are read-only: a step that
\* reads the store (hit, miss, or an empty list of seeds) leaves every
\* table's rows as they were, and adds at most the driver's own table, and
\* that only when the driver had no connection yet; and a run that ends in a
\* cache hit, an infinite cost or an error from the roofline comparison or
\* from timeit has left the rows as it found them, with nothing uncommitted.
C31_ReadsAndUnmeasuredRunsLeaveRows ==
    /\ [](\A d \in Drivers :
             RunOverUnmeasured(d) => rows = before /\ txn[d] = <<>>)
    /\ [][\A d \in Drivers :
             ReadStep(d) =>
                /\ rows' = rows
                /\ tables' = IF conn[d] THEN tables
                             ELSE tables \cup {sql_table_name(d)}]_vars

\* C31 witness: a lookup on a connection opened earlier hit a table of two
\* rows, and rows and tables are what they were before it.
C31_Witness ==
    \E d \in Drivers :
        /\ LookupOver(d)
        /\ result[d].kind = "time"
        /\ opened[d] = 1
        /\ Len(rows[sql_table_name(d)]) = 2
        /\ rows = before
        /\ sql_table_name(d) \in tables

====
